---------------------------- MODULE Spec2Model ----------------------------
(***************************************************************************)
(* A model of the llamafu binding layer: the generation entry points of   *)
(* the two builds (android/src/main/cpp/llamafu.cpp and                   *)
(* ios/Classes/llamafu.cpp) and the sampler-chain API of the android      *)
(* build.  The engine behind llama.h (tokenizer, decode, sampler draw,    *)
(* piece rendering, allocation) is an environment whose results are drawn *)
(* nondeterministically at each call site.                                *)
(***************************************************************************)
EXTENDS Integers, Sequences, FiniteSets, TLC

(***************************************************************************)
(* Bounds of the model.                                                    *)
(***************************************************************************)
MaxTokens == 3
MaxPrompt == 2
NCtx == 6
VocabSize == 3
MaxObj == 3
MaxChain == 2
MaxWrap == 3
MaxInit == 3
MaxAdapters == 2
MaxMedia == 2
MaxHandles == 2
MaxLogCalls == 3
MaxText == 9
MaxSetThreads == 2

(***************************************************************************)
(* Program constants.                                                      *)
(***************************************************************************)
MaxStrLen == 8192
MaxTokensLimit == 32768
TopKLimit == 200
PieceBuf == 8
TokenEos == 0
TokenEot == 1
MaxThreads == 128
MaxCtxSize == 1048576
DetokBytesPerToken == 8
TokenizeSlack == 16
MaxPredict == 1024

Vocab == 0 .. (VocabSize - 1)

\* llama_vocab_is_eog: the end-of-generation tokens (EOS and EOT).
llama_vocab_is_eog(t) == t \in {TokenEos, TokenEot}

\* llamafu_token_eos: the vocabulary's EOS token.
llamafu_token_eos == TokenEos

(***************************************************************************)
(* Parameter validation (floats are modelled in tenths).                   *)
(***************************************************************************)
validate_string_param(len) == len > 0 /\ len <= MaxStrLen

validate_numeric_param(value, min_val, max_val) ==
    value >= min_val /\ value <= max_val

\* A float is its value in tenths, or one of the two values below: the
\* positive infinity, above every number, and the NaN, for which every
\* ordered comparison is false.
PosInf == 1000000
NaN == -1000000

isnan(x) == x = NaN
isinf(x) == x = PosInf

FLt(a, b) == ~isnan(a) /\ ~isnan(b) /\ a < b
FLe(a, b) == ~isnan(a) /\ ~isnan(b) /\ a <= b
FGt(a, b) == FLt(b, a)
FGe(a, b) == FLe(b, a)

validate_float_param(value, min_val, max_val) ==
    FGe(value, min_val) /\ FLe(value, max_val) /\ ~isnan(value) /\ ~isinf(value)

\* The requests a caller passes: a well-formed base request, varied in the
\* fields that drive the loop, and one-field perturbations of it.
BaseRequest ==
    [null_arg |-> FALSE, prompt_len |-> 1, max_tokens |-> 1, temperature |-> 8,
     top_p |-> 9, top_k |-> 40, repeat_penalty |-> 11, ignore_eos |-> FALSE]

\* Every numeric field at the lowest, and at the highest, value the checks
\* at lines 163-167 admit.
AtMinRequest ==
    [BaseRequest EXCEPT !.max_tokens = 1, !.temperature = 0, !.top_p = 0,
                        !.top_k = 1, !.repeat_penalty = 1]

AtMaxRequest ==
    [BaseRequest EXCEPT !.max_tokens = MaxTokensLimit, !.temperature = 20,
                        !.top_p = 10, !.top_k = TopKLimit, !.repeat_penalty = 20]

LoopRequests ==
    { [BaseRequest EXCEPT !.max_tokens = m, !.ignore_eos = e] :
        m \in 1 .. MaxTokens, e \in BOOLEAN }

EdgeRequests ==
    { [BaseRequest EXCEPT !.null_arg = TRUE],
      [BaseRequest EXCEPT !.prompt_len = 0],
      [BaseRequest EXCEPT !.prompt_len = MaxStrLen + 1],
      [BaseRequest EXCEPT !.max_tokens = 0],
      [BaseRequest EXCEPT !.max_tokens = MaxTokensLimit + 1],
      [BaseRequest EXCEPT !.temperature = 0],
      [BaseRequest EXCEPT !.temperature = 21],
      [BaseRequest EXCEPT !.top_p = 11],
      [BaseRequest EXCEPT !.top_k = 0],
      [BaseRequest EXCEPT !.top_k = TopKLimit + 1],
      [BaseRequest EXCEPT !.repeat_penalty = 0],
      [BaseRequest EXCEPT !.temperature = NaN],
      AtMinRequest, AtMaxRequest }

Requests == LoopRequests \cup EdgeRequests

\* The LlamafuModelParams a caller passes to llamafu_init: a well-formed one
\* and one-field perturbations of it.  A path length of -1 is a null path.
BaseInit ==
    [null_params |-> FALSE, null_out |-> FALSE, path_len |-> 1,
     n_threads |-> 4, n_ctx |-> 2048, mmproj |-> FALSE]

InitRequests ==
    { BaseInit,
      [BaseInit EXCEPT !.mmproj = TRUE],
      [BaseInit EXCEPT !.null_params = TRUE],
      [BaseInit EXCEPT !.null_out = TRUE],
      [BaseInit EXCEPT !.path_len = -1],
      [BaseInit EXCEPT !.path_len = 0],
      [BaseInit EXCEPT !.path_len = MaxStrLen + 1],
      [BaseInit EXCEPT !.n_threads = 0],
      [BaseInit EXCEPT !.n_threads = 1],
      [BaseInit EXCEPT !.n_threads = MaxThreads],
      [BaseInit EXCEPT !.n_threads = MaxThreads + 1],
      [BaseInit EXCEPT !.n_ctx = 0],
      [BaseInit EXCEPT !.n_ctx = 1],
      [BaseInit EXCEPT !.n_ctx = MaxCtxSize],
      [BaseInit EXCEPT !.n_ctx = MaxCtxSize + 1] }

\* What llama_tokenize may return for a prompt: a negative count or a count.
TokCounts == (-1) .. MaxPrompt

\* What llama_token_to_piece may return: a negative length, a length that
\* fits the 8-byte buffer, a length that fills it.
PieceResults == {-1, 1, PieceBuf}

(***************************************************************************)
(* The decode context's memory: the set of occupied positions of the      *)
(* sequence.  llama_batch_get_one carries no positions, so a batch is     *)
(* placed after the last occupied position.                               *)
(***************************************************************************)
SetMax(S) == CHOOSE x \in S : \A y \in S : y <= x

NextPos(c) == IF c = {} THEN 0 ELSE SetMax(c) + 1

llama_memory_clear(c) == {}

\* llama_decode of a batch of n tokens; ok is the engine's own outcome.  An
\* empty batch, or one the context has no room for, is refused.
llama_decode(c, n, ok) ==
    IF ok /\ n > 0 /\ NextPos(c) + n <= NCtx
    THEN [rc |-> 0, cache |-> c \cup (NextPos(c) .. (NextPos(c) + n - 1))]
    ELSE [rc |-> 1, cache |-> c]

\* A loop whose counter does not advance.
loop_next_stuck(n) == n

\* The loops' counter step (++i, i++).
loop_next(n) == n + 1

\* llamafu_sampler_sample: the wrapper around llama_sampler_sample.
llamafu_sampler_sample(sampler_ok, llamafu_ok, idx, draw) ==
    IF ~sampler_ok \/ ~llamafu_ok \/ idx < 0 THEN -1 ELSE draw

(***************************************************************************)
(* State.                                                                  *)
(***************************************************************************)
VARIABLES
    build,           \* which source file the library was built from
    abort_callback,  \* Llamafu_s::abort_callback: -1 (null) or the iteration
                     \* from which the registered callback answers true
    cache,           \* occupied positions of the decode context's memory
    pc,              \* position of the call in progress
    call,            \* the call in progress: entry point, request, tokenizer
                     \* result and the abort callback registered at entry
    i,               \* the generation loop's counter
    generated,       \* tokens appended to the output accumulator
    accepted,        \* tokens passed to llamafu_sampler_accept
    ev,              \* the steps of the latest loop iteration, in order
    hist,            \* what the call in progress has done so far
    status,          \* the LlamafuError the last call returned
    out_result,      \* what the last call stored through out_result
    objs,            \* llama_sampler objects
    wrappers,        \* LlamafuSampler_s objects
    last,            \* the last sampler-chain call and what it returned
    made,            \* the parameters of the sampler handles constructed
    boot,            \* llamafu_init / llamafu_free: the engine's resources,
                     \* the caller's out slot, the last call
    lora,            \* the adapter registry, the adapters, the context's
                     \* attached adapters, the last adapter call
    proc,            \* the process: the threads' handles, the engine's
                     \* backend and log slot, the last call
    conv,            \* the last llamafu_tokenize / llamafu_detokenize call
    bench            \* the context's thread settings, the handle's
                     \* default_sampler, the last llamafu_bench_model call

genvars == <<build, abort_callback, cache, pc, call, i, generated, accepted,
             ev, hist, status, out_result>>
chainvars == <<objs, wrappers, last>>
extvars == <<made, boot, lora, proc, conv, bench>>
vars == <<build, abort_callback, cache, pc, call, i, generated, accepted,
          ev, hist, status, out_result, objs, wrappers, last, made, boot, lora, proc,
          conv, bench>>

NoCall == [entry |-> "none", max_tokens |-> 0, ignore_eos |-> FALSE, n_tok |-> 0,
           abort |-> -1, req |-> BaseRequest]

NoHist ==
    [tokenized |-> FALSE, n_clear |-> 0, n_decode |-> 0, polls |-> 0,
     prompt_rc |-> -1, at_prompt |-> {}, after_prompt |-> {},
     loop_rc |-> -1, piece_rc |-> 0, step_failed |-> FALSE,
     iters |-> 0, drawn |-> -1, n_load |-> 0, n_encode |-> 0,
     n_inputs |-> 0, n_done |-> 0, n_held |-> 0, media_failed |-> FALSE,
     fragments |-> <<>>, has_grammar |-> FALSE, legal |-> {}, cand |-> {}]

Unset == [kind |-> "unset", toks |-> <<>>]

NoLast == [op |-> "none", chain |-> 0, arg |-> 0, n_before |-> 0,
           before |-> <<>>, ret |-> "none", uaf |-> FALSE, ub |-> FALSE]

\* The engine's resources a handle holds, and the caller's out slot (the
\* number of the handle stored in it).
Resources(backend, model, ctx, vision, handle, out) ==
    [backend |-> backend, model |-> model, ctx |-> ctx, vision |-> vision,
     handle |-> handle, out |-> out]

\* The handle the calls of the model work on has been constructed.
NoBoot ==
    [res |-> Resources(1, 1, 1, 0, 1, 1), n_init |-> 0, op |-> "none",
     req |-> BaseInit, ret |-> "none", load_attempted |-> FALSE,
     before |-> Resources(1, 1, 1, 0, 1, 1)]

NoLoraCall ==
    [op |-> "none", arg |-> 0, scale |-> 0, ret |-> "none", engine_calls |-> 0,
     opened |-> FALSE, registered |-> FALSE, was_removed |-> FALSE,
     uaf |-> FALSE, registry_before |-> {}, out_before |-> 0]

\* A handle with no adapter loaded.  ads are the engine's adapters, registry
\* the keys of Llamafu_s::lora_adapters, attached the adapters the decode
\* context refers to, out the caller's out_adapter slot.  removed (the
\* handles an unload or remove call succeeded on) and dangling (the context
\* referred to a freed adapter during a call) are bookkeeping.
NoLora ==
    [ads |-> <<>>, registry |-> {}, attached |-> {}, removed |-> {}, out |-> 0,
     dangling |-> FALSE, last |-> NoLoraCall]

\* A process in which no thread has a handle yet and no log callback is
\* registered.  live are the threads whose handle is live, backend whether
\* the engine's backend is initialised, slot the engine's log callback and
\* its user_data (0 is null), reg the latest llamafu_set_log_callback
\* arguments, delivered the callback and user_data of the latest log event.
NoProc ==
    [live |-> {}, backend |-> FALSE, used_down |-> FALSE,
     op |-> "none", thread |-> 0, ret |-> "none",
     slot |-> [fn |-> 0, ud |-> 0], reg |-> [cb |-> 0, ud |-> 0],
     delivered |-> [cb |-> 0, ud |-> 0], n_log |-> 0]

\* No text has been tokenized yet.
NoConv ==
    [op |-> "none", ret |-> "none", text |-> <<>>, add_special |-> FALSE,
     remove_special |-> FALSE, tokens |-> <<>>, out_text |-> <<>>,
     alloc_ok |-> TRUE]

\* The thread counts the engine resolves the automatic setting of
\* llamafu_init to (lines 108-109), and the ones the callers set.
ThreadCounts == 1 .. MaxSetThreads

\* A handle as llamafu_init builds it (lines 121-128): default_sampler is
\* null.  before holds the thread settings at the entry of the last call,
\* sampled the states of default_sampler at the sample calls of the last
\* llamafu_bench_model.
NoBench ==
    [op |-> "none", ret |-> "none", n_threads |-> 1, n_threads_batch |-> 1,
     arg |-> <<0, 0>>, before |-> <<1, 1>>,
     default_sampler |-> "nullptr", sampled |-> {},
     validated |-> FALSE, path |-> "none"]

InitBase ==
    /\ build \in {"android", "ios"}
    /\ abort_callback = -1
    /\ cache = {}
    /\ pc = "idle"
    /\ call = NoCall
    /\ i = 0
    /\ generated = <<>>
    /\ accepted = <<>>
    /\ ev = <<>>
    /\ hist = NoHist
    /\ status = "none"
    /\ out_result = Unset
    /\ objs = <<>>
    /\ wrappers = <<>>
    /\ last = NoLast
    /\ made = {}
    /\ boot = NoBoot
    /\ lora = NoLora
    /\ proc = NoProc
    /\ bench = NoBench

Init ==
    /\ InitBase
    /\ conv = NoConv

(***************************************************************************)
(* A call returns: the status, what it stored through out_result, the     *)
(* memory it leaves and the record of what it did.                        *)
(***************************************************************************)
Return(c, st, out, mem, h) ==
    /\ pc' = "done"
    /\ call' = c
    /\ status' = st
    /\ out_result' = out
    /\ cache' = mem
    /\ hist' = h
    /\ i' = 0
    /\ generated' = <<>>
    /\ accepted' = <<>>
    /\ ev' = <<>>
    /\ UNCHANGED <<build, abort_callback, objs, wrappers, last, extvars>>

\* The loop is entered after a successful prompt decode.
EnterLoop(c, mem, h) ==
    /\ pc' = "loop"
    /\ call' = c
    /\ status' = "none"
    /\ out_result' = Unset
    /\ cache' = mem
    /\ hist' = h
    /\ i' = 0
    /\ generated' = <<>>
    /\ accepted' = <<>>
    /\ ev' = <<>>
    /\ UNCHANGED <<build, abort_callback, objs, wrappers, last, extvars>>

CallOf(entry, r, n) ==
    [entry |-> entry, max_tokens |-> r.max_tokens, ignore_eos |-> r.ignore_eos,
     n_tok |-> n, abort |-> abort_callback, req |-> r]

(***************************************************************************)
(* android: llamafu_set_abort_callback.                                    *)
(***************************************************************************)
llamafu_set_abort_callback ==
    /\ build = "android"
    /\ pc \in {"idle", "done"}
    /\ \E k \in (-1) .. (MaxTokens - 1) :
        /\ k # abort_callback
        /\ abort_callback' = k
    /\ UNCHANGED <<build, cache, pc, call, i, generated, accepted, ev, hist,
                   status, out_result, objs, wrappers, last, extvars>>

(***************************************************************************)
(* android: llamafu_complete (the placeholder completion).                 *)
(***************************************************************************)
\* The function once the arguments have passed the checks (lines 171-215).
android_complete_outcome(h0, n_tokens, ok, alloc_ok) ==
    LET h1 == [h0 EXCEPT !.tokenized = TRUE]
        d == llama_decode(llama_memory_clear(cache), n_tokens, ok)
        h2 == [h1 EXCEPT !.n_clear = 1, !.n_decode = 1, !.prompt_rc = d.rc,
                         !.at_prompt = llama_memory_clear(cache),
                         !.after_prompt = d.cache,
                         !.step_failed = (d.rc # 0)]
    IN  IF n_tokens < 0
        THEN [st |-> "LLAMAFU_ERROR_INVALID_PARAM", out |-> Unset,
              mem |-> cache, h |-> h1]
        ELSE IF n_tokens = 0
        THEN [st |-> "LLAMAFU_ERROR_INVALID_PARAM", out |-> Unset,
              mem |-> cache, h |-> h1]
        ELSE IF d.rc # 0
        THEN [st |-> "LLAMAFU_ERROR_UNKNOWN", out |-> Unset,
              mem |-> d.cache, h |-> h2]
        ELSE IF ~alloc_ok
        THEN [st |-> "LLAMAFU_ERROR_OUT_OF_MEMORY",
              out |-> [kind |-> "null", toks |-> <<>>],
              mem |-> d.cache, h |-> h2]
        ELSE [st |-> "LLAMAFU_SUCCESS",
              out |-> [kind |-> "placeholder", toks |-> <<>>],
              mem |-> d.cache, h |-> h2]

\* The call returns what the function body came to.
Returns(c, x) == Return(c, x.st, x.out, x.mem, x.h)

android_complete_body(c, h0, n_tokens, ok, alloc_ok) ==
    Returns(c, android_complete_outcome(h0, n_tokens, ok, alloc_ok))

\* The argument checks of llamafu_complete (lines 155-169).
android_complete_rejects(r) ==
    \/ r.null_arg
    \/ ~validate_string_param(r.prompt_len)
    \/ ~validate_numeric_param(r.max_tokens, 1, MaxTokensLimit)
    \/ ~validate_float_param(r.temperature, 0, 20)
    \/ ~validate_float_param(r.top_p, 0, 10)
    \/ ~validate_numeric_param(r.top_k, 1, TopKLimit)
    \/ ~validate_float_param(r.repeat_penalty, 1, 20)

\* The engine's answers a call may meet: the tokenizer's count, the decode's
\* and the allocator's outcome.  An answer the call never asks for is fixed.
EngineAnswers ==
    { e \in [n : TokCounts, ok : BOOLEAN, alloc_ok : BOOLEAN] :
        /\ (e.n <= 0) => (e.ok /\ e.alloc_ok)
        /\ ~e.ok => e.alloc_ok }

android_llamafu_complete ==
    /\ build = "android"
    /\ pc \in {"idle", "done"}
    /\ \E r \in Requests :
        IF android_complete_rejects(r)
        THEN Return(CallOf("llamafu_complete", r, 0),
                    "LLAMAFU_ERROR_INVALID_PARAM", Unset, cache, NoHist)
        ELSE \E e \in EngineAnswers :
                android_complete_body(CallOf("llamafu_complete", r, e.n), NoHist,
                                      e.n, e.ok, e.alloc_ok)

(***************************************************************************)
(* android: llamafu_multimodal_complete_enhanced (lines 2800-2886).        *)
(***************************************************************************)
\* What llamafu_image_process answers for the image that stops the loop at
\* lines 2823-2840: an unknown source type, a file that cannot be opened, an
\* encoder failure; "none" when every image is processed.
ImageStops ==
    {"none", "LLAMAFU_ERROR_INVALID_PARAM", "LLAMAFU_ERROR_FILE_NOT_FOUND",
     "LLAMAFU_ERROR_VISION_PROCESS_FAILED"}

\* The images whose data llamafu_image_process loaded (lines 2535-2566) and
\* the images it handed to the encoder (lines 2586-2619), when n_ok images
\* were processed and the next one stopped the loop with stop.  n_other
\* inputs are not images: the loop passes over them (line 2824).  Every
\* embedding is freed before the return (lines 2829-2835, 2875-2879).
MediaHist(n_ok, stop, n_other) ==
    [NoHist EXCEPT
        !.n_inputs = n_ok + n_other + (IF stop = "none" THEN 0 ELSE 1),
        !.n_done = n_ok,
        !.n_held = 0,
        !.media_failed = (stop # "none"),
        !.n_load = n_ok + (IF stop \in {"LLAMAFU_ERROR_FILE_NOT_FOUND",
                                        "LLAMAFU_ERROR_VISION_PROCESS_FAILED"}
                           THEN 1 ELSE 0),
        !.n_encode = n_ok + (IF stop = "LLAMAFU_ERROR_VISION_PROCESS_FAILED"
                             THEN 1 ELSE 0)]

\* The function once the media inputs are known to be processable (lines
\* 2819-2881): the images are processed, then llamafu_complete is called.
enhanced_body(r, n_ok, stop, n_other) ==
    LET c == CallOf("llamafu_multimodal_complete_enhanced", r, 0)
        h0 == MediaHist(n_ok, stop, n_other)
    IN  IF stop # "none"
        THEN Return(c, stop, Unset, cache, h0)
        ELSE IF android_complete_rejects(r)
        THEN Return(c, "LLAMAFU_ERROR_INVALID_PARAM", Unset, cache, h0)
        ELSE \E e \in EngineAnswers :
                android_complete_body(
                    CallOf("llamafu_multimodal_complete_enhanced", r, e.n),
                    h0, e.n, e.ok, e.alloc_ok)

\* The media inputs of a call: n_ok images that are processed, the image
\* that stops the loop, n_other inputs that are not images.
MediaInputs ==
    { m \in [n_ok : 0 .. MaxMedia, stop : ImageStops, n_other : 0 .. 1] :
        m.n_ok + m.n_other + (IF m.stop = "none" THEN 0 ELSE 1) <= MaxMedia }

llamafu_multimodal_complete_enhanced ==
    /\ build = "android"
    /\ pc \in {"idle", "done"}
    /\ \E r \in Requests :
        LET c == CallOf("llamafu_multimodal_complete_enhanced", r, 0)
        IN  IF r.null_arg
            THEN Return(c, "LLAMAFU_ERROR_INVALID_PARAM", Unset, cache, NoHist)
            ELSE \E is_multimodal \in BOOLEAN :
                IF ~is_multimodal
                THEN Return(c, "LLAMAFU_ERROR_MULTIMODAL_NOT_SUPPORTED", Unset,
                            cache, NoHist)
                ELSE IF ~validate_string_param(r.prompt_len)
                THEN Return(c, "LLAMAFU_ERROR_INVALID_PARAM", Unset, cache,
                            NoHist)
                ELSE \E vision_initialized \in BOOLEAN :
                    IF vision_initialized
                    THEN \E m \in MediaInputs :
                            enhanced_body(r, m.n_ok, m.stop, m.n_other)
                    ELSE \E no_media \in BOOLEAN :
                            IF no_media
                            THEN enhanced_body(r, 0, "none", 0)
                            ELSE Return(c, "LLAMAFU_ERROR_VISION_INIT_FAILED",
                                        Unset, cache, NoHist)

(***************************************************************************)
(* android: llamafu_multimodal_complete (lines 227-247): the text-only     *)
(* fallback.  The media inputs are not looked at.                          *)
(***************************************************************************)
\* The LlamafuInferParams the function builds from the caller's (236-244).
multimodal_text_params(r) ==
    [r EXCEPT !.top_p = 9, !.top_k = 40, !.repeat_penalty = 11]

android_llamafu_multimodal_complete ==
    /\ build = "android"
    /\ pc \in {"idle", "done"}
    /\ \E r \in Requests :
        LET t == multimodal_text_params(r)
            c == CallOf("llamafu_multimodal_complete", t, 0)
        IN  IF r.null_arg
            THEN Return(c, "LLAMAFU_ERROR_INVALID_PARAM", Unset, cache, NoHist)
            ELSE \E is_multimodal \in BOOLEAN :
                IF ~is_multimodal
                THEN Return(c, "LLAMAFU_ERROR_MULTIMODAL_NOT_SUPPORTED", Unset,
                            cache, NoHist)
                ELSE \E n_media_inputs \in 0 .. MaxMedia :
                    LET h0 == [NoHist EXCEPT !.n_inputs = n_media_inputs]
                    IN  IF android_complete_rejects(t)
                        THEN Return(c, "LLAMAFU_ERROR_INVALID_PARAM", Unset,
                                    cache, h0)
                        ELSE \E e \in EngineAnswers :
                                android_complete_body(
                                    CallOf("llamafu_multimodal_complete", t, e.n),
                                    h0, e.n, e.ok, e.alloc_ok)

(***************************************************************************)
(* ios: llamafu_multimodal_complete (lines 323-473).                       *)
(***************************************************************************)
\* What the media pipeline answers: n_ok inputs are loaded and given a
\* bitmap, n_null are loaded and given none (lines 363-377), load_fails
\* when the next input's file cannot be read (line 360), then the outcome
\* of mtmd_tokenize (line 396) and of mtmd_encode_chunk (line 421).
MediaAnswers ==
    { m \in [n_ok : 0 .. MaxMedia, n_null : 0 .. 1, load_fails : BOOLEAN,
             tokenize_ok : BOOLEAN, encode_ok : BOOLEAN] :
        /\ m.n_ok + m.n_null + (IF m.load_fails THEN 1 ELSE 0) <= MaxMedia
        /\ m.load_fails => (m.tokenize_ok /\ m.encode_ok)
        /\ ~m.tokenize_ok => m.encode_ok
        /\ (m.n_ok = 0) => m.encode_ok }

ios_multimodal_outcome(mtmd, supported, m, e) ==
    LET n_inputs == m.n_ok + m.n_null + (IF m.load_fails THEN 1 ELSE 0)
        all_tokens == e.n + m.n_ok
        loaded == [NoHist EXCEPT !.n_inputs = n_inputs,
                                 !.n_load = n_inputs,
                                 !.media_failed = m.load_fails]
        tokenized == [loaded EXCEPT !.tokenized = TRUE]
        encoded == [tokenized EXCEPT !.n_encode = m.n_ok,
                                     !.n_done = m.n_ok]
        d == llama_decode(cache, all_tokens, e.ok)
        h2 == [encoded EXCEPT !.n_decode = 1, !.prompt_rc = d.rc,
                              !.at_prompt = cache, !.after_prompt = d.cache,
                              !.step_failed = (d.rc # 0)]
        text == [kind |-> "placeholder", toks |-> <<>>]
    IN  IF ~mtmd
        THEN [st |-> "LLAMAFU_ERROR_MULTIMODAL_NOT_SUPPORTED", out |-> Unset,
              mem |-> cache, h |-> NoHist]
        ELSE IF n_inputs > 0 /\ ~supported
        THEN [st |-> "LLAMAFU_ERROR_MULTIMODAL_NOT_SUPPORTED", out |-> Unset,
              mem |-> cache, h |-> NoHist]
        ELSE IF m.load_fails
        THEN [st |-> "LLAMAFU_ERROR_INVALID_PARAM", out |-> Unset,
              mem |-> cache, h |-> loaded]
        ELSE IF ~m.tokenize_ok
        THEN [st |-> "LLAMAFU_ERROR_INVALID_PARAM", out |-> Unset,
              mem |-> cache, h |-> tokenized]
        ELSE IF ~m.encode_ok
        THEN [st |-> "LLAMAFU_ERROR_UNKNOWN", out |-> Unset, mem |-> cache,
              h |-> [tokenized EXCEPT !.n_encode = 1, !.media_failed = TRUE]]
        ELSE IF all_tokens = 0
        THEN [st |-> "LLAMAFU_SUCCESS", out |-> text, mem |-> cache,
              h |-> encoded]
        ELSE IF d.rc # 0
        THEN [st |-> "LLAMAFU_ERROR_UNKNOWN", out |-> Unset, mem |-> d.cache,
              h |-> h2]
        ELSE [st |-> "LLAMAFU_SUCCESS", out |-> text, mem |-> d.cache,
              h |-> h2]

\* The engine's answers an ios multimodal call may meet.
IosMediaEngine == { x \in EngineAnswers : x.alloc_ok /\ x.n >= 0 }

ios_llamafu_multimodal_complete ==
    /\ build = "ios"
    /\ pc \in {"idle", "done"}
    /\ \E mtmd \in BOOLEAN, supported \in BOOLEAN, m \in MediaAnswers,
          e \in IosMediaEngine :
        Returns(CallOf("ios_llamafu_multimodal_complete", BaseRequest,
                       e.n + m.n_ok),
                ios_multimodal_outcome(mtmd, supported, m, e))

(***************************************************************************)
(* android: llamafu_generate_text.                                         *)
(***************************************************************************)
\* Validation, tokenization, memory clear and the prompt decode.
\* The argument checks of llamafu_generate_text (lines 1654-1663).
generate_text_rejects(r) ==
    \/ r.null_arg
    \/ ~validate_string_param(r.prompt_len)
    \/ ~validate_numeric_param(r.max_tokens, 1, MaxTokensLimit)
    \/ ~validate_float_param(r.temperature, 0, 20)
    \/ ~validate_float_param(r.top_p, 0, 10)
    \/ ~validate_numeric_param(r.top_k, 1, TopKLimit)

llamafu_generate_text_begin ==
    /\ build = "android"
    /\ pc \in {"idle", "done"}
    /\ \E r \in Requests :
        IF generate_text_rejects(r)
        THEN Return(CallOf("llamafu_generate_text", r, 0),
                    "LLAMAFU_ERROR_INVALID_PARAM", Unset, cache, NoHist)
        ELSE \E e \in { x \in EngineAnswers : x.alloc_ok } :
                LET n_prompt == e.n
                    c == CallOf("llamafu_generate_text", r, n_prompt)
                    h1 == [NoHist EXCEPT !.tokenized = TRUE]
                    d == llama_decode(llama_memory_clear(cache), n_prompt, e.ok)
                    h2 == [h1 EXCEPT !.n_clear = 1, !.n_decode = 1,
                                     !.prompt_rc = d.rc,
                                     !.at_prompt = llama_memory_clear(cache),
                                     !.after_prompt = d.cache,
                                     !.step_failed = (d.rc # 0)]
                IN  IF n_prompt < 0
                    THEN Return(c, "LLAMAFU_ERROR_INVALID_PARAM", Unset, cache, h1)
                    ELSE IF d.rc # 0
                    THEN Return(c, "LLAMAFU_ERROR_DECODE_FAILED", Unset, d.cache, h2)
                    ELSE EnterLoop(c, d.cache, h2)

\* One pass of the loop at lines 1738-1759.
llamafu_generate_text_iter ==
    /\ pc = "loop"
    /\ call.entry = "llamafu_generate_text"
    /\ \E draw \in Vocab, ok \in BOOLEAN :
        LET next_token == llamafu_sampler_sample(TRUE, TRUE, -1, draw)
            stop == ~call.ignore_eos /\ next_token = llamafu_token_eos
            d == llama_decode(cache, 1, ok)
            h0 == [hist EXCEPT !.iters = @ + 1, !.drawn = next_token]
        IN  IF i >= call.max_tokens
            THEN /\ pc' = "end"
                 /\ UNCHANGED <<i, generated, accepted, ev, hist, cache>>
            ELSE IF next_token < 0
            THEN /\ pc' = "end"
                 /\ ev' = <<"draw">>
                 /\ hist' = [h0 EXCEPT !.step_failed = TRUE]
                 /\ UNCHANGED <<i, generated, accepted, cache>>
            ELSE IF stop
            THEN /\ pc' = "end"
                 /\ generated' = Append(generated, next_token)
                 /\ ev' = <<"draw", "append", "check">>
                 /\ hist' = h0
                 /\ UNCHANGED <<i, accepted, cache>>
            ELSE /\ generated' = Append(generated, next_token)
                 /\ accepted' = Append(accepted, next_token)
                 /\ ev' = <<"draw", "append", "check", "accept", "decode">>
                 /\ cache' = d.cache
                 /\ hist' = [h0 EXCEPT !.n_decode = @ + 1, !.loop_rc = d.rc,
                                       !.step_failed = @ \/ (d.rc # 0)]
                 /\ IF d.rc # 0
                    THEN pc' = "end" /\ i' = i
                    ELSE pc' = "loop" /\ i' = loop_next(i)
    /\ UNCHANGED <<build, abort_callback, call, status, out_result, objs,
                   wrappers, last, extvars>>

\* After the loop: the chain is freed and the tokens are detokenized.
llamafu_generate_text_end ==
    /\ pc = "end"
    /\ call.entry = "llamafu_generate_text"
    /\ \E detok_ok \in BOOLEAN, alloc_ok \in BOOLEAN :
        IF generated = <<>>
        THEN /\ status' = "LLAMAFU_SUCCESS"
             /\ out_result' = IF alloc_ok THEN [kind |-> "generated", toks |-> <<>>]
                              ELSE [kind |-> "null", toks |-> <<>>]
             /\ hist' = hist
        ELSE IF ~detok_ok
        THEN /\ status' = "LLAMAFU_ERROR_UNKNOWN"
             /\ out_result' = out_result
             /\ hist' = [hist EXCEPT !.piece_rc = -1, !.step_failed = TRUE]
        ELSE IF ~alloc_ok
        THEN /\ status' = "LLAMAFU_ERROR_OUT_OF_MEMORY"
             /\ out_result' = [kind |-> "null", toks |-> <<>>]
             /\ hist' = hist
        ELSE /\ status' = "LLAMAFU_SUCCESS"
             /\ out_result' = [kind |-> "generated", toks |-> generated]
             /\ hist' = hist
    /\ pc' = "done"
    /\ UNCHANGED <<build, abort_callback, cache, call, i, generated, accepted,
                   ev, objs, wrappers, last, extvars>>

(***************************************************************************)
(* ios: llamafu_complete.  The function checks none of its arguments: a   *)
(* null argument is dereferenced, so only non-null arguments are drawn,   *)
(* and max_tokens is kept within the model's bound.                       *)
(***************************************************************************)
IosRequests == { r \in Requests : ~r.null_arg /\ r.max_tokens <= MaxTokens }

\* Tokenization and the prompt decode (lines 109-129).
ios_llamafu_complete_begin ==
    /\ build = "ios"
    /\ pc \in {"idle", "done"}
    /\ \E r \in IosRequests, e \in { x \in EngineAnswers : x.alloc_ok } :
        LET n_tokens == e.n
            c == CallOf("ios_llamafu_complete", r, n_tokens)
            h1 == [NoHist EXCEPT !.tokenized = TRUE]
            d == llama_decode(cache, n_tokens, e.ok)
            h2 == [h1 EXCEPT !.n_decode = 1, !.prompt_rc = d.rc,
                             !.at_prompt = cache, !.after_prompt = d.cache,
                             !.step_failed = (d.rc # 0)]
        IN  IF n_tokens < 0
            THEN Return(c, "LLAMAFU_ERROR_INVALID_PARAM", Unset, cache, h1)
            ELSE IF d.rc # 0
            THEN Return(c, "LLAMAFU_ERROR_UNKNOWN", Unset, d.cache, h2)
            ELSE EnterLoop(c, d.cache, h2)

\* A loop that leaves by break when the single-token decode fails, and goes
\* on to return the text built so far.
ios_on_decode_failure_break == "break"

\* What the loop does when the single-token decode fails (lines 183-187).
ios_on_decode_failure == "return"

\* One pass of the loop at lines 135-188.
ios_llamafu_complete_iter ==
    /\ pc = "loop"
    /\ call.entry = "ios_llamafu_complete"
    /\ \E new_token_id \in Vocab, n_chars \in PieceResults, ok \in BOOLEAN :
        LET d == llama_decode(cache, 1, ok)
            h0 == [hist EXCEPT !.iters = @ + 1, !.drawn = new_token_id]
        IN  IF i >= call.max_tokens
            THEN /\ pc' = "end"
                 /\ UNCHANGED <<i, generated, ev, hist, cache, status>>
            ELSE IF llama_vocab_is_eog(new_token_id)
            THEN /\ pc' = "end"
                 /\ ev' = <<"draw", "check">>
                 /\ hist' = h0
                 /\ UNCHANGED <<i, generated, cache, status>>
            ELSE IF n_chars < 0
            THEN /\ pc' = "done"
                 /\ status' = "LLAMAFU_ERROR_UNKNOWN"
                 /\ ev' = <<"draw", "check">>
                 /\ hist' = [h0 EXCEPT !.piece_rc = n_chars, !.step_failed = TRUE]
                 /\ UNCHANGED <<i, generated, cache>>
            ELSE /\ generated' = Append(generated, new_token_id)
                 /\ ev' = <<"draw", "check", "append", "decode">>
                 /\ cache' = d.cache
                 /\ hist' = [h0 EXCEPT !.n_decode = @ + 1, !.loop_rc = d.rc,
                                       !.step_failed = @ \/ (d.rc # 0)]
                 /\ IF d.rc = 0
                    THEN pc' = "loop" /\ i' = loop_next(i) /\ status' = status
                    ELSE IF ios_on_decode_failure = "return"
                    THEN pc' = "done" /\ i' = i /\ status' = "LLAMAFU_ERROR_UNKNOWN"
                    ELSE pc' = "end" /\ i' = i /\ status' = status
    /\ UNCHANGED <<build, abort_callback, call, accepted, out_result, objs,
                   wrappers, last, extvars>>

\* After the loop: the result (prompt and generated text) is copied out.
ios_llamafu_complete_end ==
    /\ pc = "end"
    /\ call.entry = "ios_llamafu_complete"
    /\ \E alloc_ok \in BOOLEAN :
        IF ~alloc_ok
        THEN /\ status' = "LLAMAFU_ERROR_UNKNOWN"
             /\ out_result' = out_result
        ELSE /\ status' = "LLAMAFU_SUCCESS"
             /\ out_result' = [kind |-> "prompt+generated", toks |-> generated]
    /\ pc' = "done"
    /\ UNCHANGED <<build, abort_callback, cache, call, i, generated, accepted,
                   ev, hist, objs, wrappers, last, extvars>>

(***************************************************************************)
(* ios: llamafu_complete_stream (lines 488-577),                           *)
(* llamafu_complete_with_grammar (201-321) and                             *)
(* llamafu_complete_with_grammar_stream (579-696).  The three functions    *)
(* are the loop of llamafu_complete with a callback in place of the        *)
(* output accumulator, with a grammar sampler, and with both.              *)
(***************************************************************************)
StreamEntries ==
    {"ios_llamafu_complete_stream", "ios_llamafu_complete_with_grammar_stream"}

GrammarEntries ==
    {"ios_llamafu_complete_with_grammar",
     "ios_llamafu_complete_with_grammar_stream"}

\* A grammar is the set of tokens its automaton allows; the empty set
\* stands for a null or empty grammar_str.
Grammars == {{}} \cup { {t} : t \in Vocab }

\* The requests of the loop variants: one token or the most, temperature
\* 0.8 or 0.
VariantRequests ==
    { [BaseRequest EXCEPT !.max_tokens = m, !.temperature = t] :
        m \in {1, MaxTokens}, t \in {0, 8} }

\* A text fragment handed to the stream callback: the tokens it is the
\* text of, and the number of tokens decoded in the loop before the call.
Fragment(kind, toks, at) == [kind |-> kind, toks |-> toks, at |-> at]

\* llama_sampler_sample(smpl, ctx, -1) builds its candidates from the
\* context's logits: the token it returns is any token of the vocabulary,
\* whatever was done to the caller's candidates_p.
llama_sampler_sample == Vocab

\* llama_sampler_apply of the grammar sampler on candidates_p (line 253).
grammar_apply(candidates, h) ==
    IF h.has_grammar THEN candidates \cap h.legal ELSE candidates

\* Tokenization, the grammar sampler and the prompt decode.
ios_variant_begin(entries) ==
    /\ build = "ios"
    /\ pc \in {"idle", "done"}
    /\ \E entry \in entries, r \in VariantRequests,
          e \in { x \in EngineAnswers : x.alloc_ok }, g \in Grammars,
          grammar_ok \in BOOLEAN :
        LET n_tokens == e.n
            c == CallOf(entry, r, n_tokens)
            h1 == [NoHist EXCEPT !.tokenized = TRUE]
            with_grammar == entry \in GrammarEntries /\ g # {}
            h1g == IF with_grammar
                   THEN [h1 EXCEPT !.has_grammar = TRUE, !.legal = g]
                   ELSE h1
            d == llama_decode(cache, n_tokens, e.ok)
            h2 == [h1g EXCEPT !.n_decode = 1, !.prompt_rc = d.rc,
                              !.at_prompt = cache, !.after_prompt = d.cache,
                              !.step_failed = (d.rc # 0)]
        IN  /\ (entry \notin GrammarEntries) => (g = {})
            /\ (g = {}) => grammar_ok
            /\ IF n_tokens < 0
               THEN Return(c, "LLAMAFU_ERROR_INVALID_PARAM", Unset, cache, h1)
               ELSE IF with_grammar /\ ~grammar_ok
               THEN Return(c, "LLAMAFU_ERROR_GRAMMAR_INIT_FAILED", Unset, cache, h1)
               ELSE IF d.rc # 0
               THEN Return(c, "LLAMAFU_ERROR_UNKNOWN", Unset, d.cache, h2)
               ELSE EnterLoop(c, d.cache, h2)

\* One pass of the loop (lines 241-305, 514-566, 617-682).
ios_variant_iter ==
    /\ pc = "loop"
    /\ call.entry \in StreamEntries \cup GrammarEntries
    /\ \E new_token_id \in llama_sampler_sample, n_chars \in PieceResults,
          ok \in BOOLEAN :
        LET d == llama_decode(cache, 1, ok)
            candidates_p == grammar_apply(Vocab, hist)
            h0 == [hist EXCEPT !.iters = @ + 1, !.drawn = new_token_id,
                               !.cand = candidates_p]
            steps == (IF hist.has_grammar THEN <<"grammar">> ELSE <<>>)
                     \o (IF FGt(call.req.temperature, 0) THEN <<"temp">> ELSE <<>>)
                     \o <<"dist", "draw">>
                     \o (IF hist.has_grammar THEN <<"accept">> ELSE <<>>)
                     \o <<"check">>
            stream == call.entry \in StreamEntries
        IN  IF i >= call.max_tokens
            THEN /\ pc' = "end"
                 /\ UNCHANGED <<i, generated, accepted, ev, hist, cache, status>>
            ELSE /\ accepted' = IF hist.has_grammar
                                THEN Append(accepted, new_token_id)
                                ELSE accepted
                 /\ IF llama_vocab_is_eog(new_token_id)
                    THEN /\ pc' = "end"
                         /\ ev' = steps
                         /\ hist' = h0
                         /\ UNCHANGED <<i, generated, cache, status>>
                    ELSE IF n_chars < 0
                    THEN /\ pc' = "done"
                         /\ status' = "LLAMAFU_ERROR_UNKNOWN"
                         /\ ev' = steps
                         /\ hist' = [h0 EXCEPT !.piece_rc = n_chars,
                                               !.step_failed = TRUE]
                         /\ UNCHANGED <<i, generated, cache>>
                    ELSE /\ generated' = Append(generated, new_token_id)
                         /\ ev' = steps \o (IF stream THEN <<"callback">>
                                            ELSE <<"append">>) \o <<"decode">>
                         /\ cache' = d.cache
                         /\ hist' = [h0 EXCEPT
                               !.n_decode = @ + 1, !.loop_rc = d.rc,
                               !.step_failed = @ \/ (d.rc # 0),
                               !.fragments =
                                  IF stream
                                  THEN Append(@, Fragment("piece", <<new_token_id>>,
                                                          Len(generated)))
                                  ELSE @]
                         /\ IF d.rc = 0
                            THEN pc' = "loop" /\ i' = loop_next(i) /\ status' = status
                            ELSE pc' = "done" /\ i' = i
                                 /\ status' = "LLAMAFU_ERROR_UNKNOWN"
    /\ UNCHANGED <<build, abort_callback, call, out_result, objs,
                   wrappers, last, extvars>>

\* After the loop: the streaming functions return success; the other one
\* copies the prompt and the generated text out.
ios_variant_end ==
    /\ pc = "end"
    /\ call.entry \in StreamEntries \cup GrammarEntries
    /\ \E alloc_ok \in BOOLEAN :
        IF call.entry \in StreamEntries
        THEN /\ alloc_ok
             /\ status' = "LLAMAFU_SUCCESS"
             /\ out_result' = out_result
        ELSE IF ~alloc_ok
        THEN /\ status' = "LLAMAFU_ERROR_UNKNOWN"
             /\ out_result' = out_result
        ELSE /\ status' = "LLAMAFU_SUCCESS"
             /\ out_result' = [kind |-> "prompt+generated", toks |-> generated]
    /\ pc' = "done"
    /\ UNCHANGED <<build, abort_callback, cache, call, i, generated, accepted,
                   ev, hist, objs, wrappers, last, extvars>>

(***************************************************************************)
(* The streaming functions that run a whole completion first.              *)
(***************************************************************************)
\* The callback is called with the complete result of a successful call
\* and the result is freed (android lines 2899-2902, ios lines 705-709).
stream_whole_result(x) ==
    IF x.st = "LLAMAFU_SUCCESS" /\ x.out.kind # "null"
    THEN [x EXCEPT !.out = Unset,
                   !.h = [x.h EXCEPT !.fragments =
                             Append(@, Fragment("result", x.out.toks, 0))]]
    ELSE [x EXCEPT !.out = Unset]

\* ios: llamafu_multimodal_complete_stream (lines 698-713).
ios_llamafu_multimodal_complete_stream ==
    /\ build = "ios"
    /\ pc \in {"idle", "done"}
    /\ \E mtmd \in BOOLEAN, supported \in BOOLEAN, m \in MediaAnswers,
          e \in IosMediaEngine :
        Returns(CallOf("ios_llamafu_multimodal_complete_stream", BaseRequest,
                       e.n + m.n_ok),
                stream_whole_result(ios_multimodal_outcome(mtmd, supported, m, e)))

\* What android llamafu_multimodal_complete_enhanced comes to (lines
\* 2800-2886), as a value.
enhanced_outcome(r, is_multimodal, vision_initialized, m, e) ==
    LET n_media_inputs == m.n_ok + m.n_other + (IF m.stop = "none" THEN 0 ELSE 1)
        h0 == MediaHist(m.n_ok, m.stop, m.n_other)
        refused(st) == [st |-> st, out |-> Unset, mem |-> cache, h |-> NoHist]
    IN  IF r.null_arg
        THEN refused("LLAMAFU_ERROR_INVALID_PARAM")
        ELSE IF ~is_multimodal
        THEN refused("LLAMAFU_ERROR_MULTIMODAL_NOT_SUPPORTED")
        ELSE IF ~validate_string_param(r.prompt_len)
        THEN refused("LLAMAFU_ERROR_INVALID_PARAM")
        ELSE IF ~vision_initialized /\ n_media_inputs > 0
        THEN refused("LLAMAFU_ERROR_VISION_INIT_FAILED")
        ELSE IF m.stop # "none"
        THEN [st |-> m.stop, out |-> Unset, mem |-> cache, h |-> h0]
        ELSE IF android_complete_rejects(r)
        THEN [st |-> "LLAMAFU_ERROR_INVALID_PARAM", out |-> Unset,
              mem |-> cache, h |-> h0]
        ELSE android_complete_outcome(h0, e.n, e.ok, e.alloc_ok)

\* The requests the streaming wrapper is called with.
StreamRequests ==
    { BaseRequest, [BaseRequest EXCEPT !.null_arg = TRUE],
      [BaseRequest EXCEPT !.max_tokens = 0] }

\* android: llamafu_multimodal_complete_streaming (lines 2888-2904).
llamafu_multimodal_complete_streaming ==
    /\ build = "android"
    /\ pc \in {"idle", "done"}
    /\ \E r \in StreamRequests, is_multimodal \in BOOLEAN,
          vision_initialized \in BOOLEAN, m \in MediaInputs,
          e \in EngineAnswers :
        LET c == CallOf("llamafu_multimodal_complete_streaming", r, e.n)
        IN  IF r.null_arg
            THEN Return(c, "LLAMAFU_ERROR_INVALID_PARAM", Unset, cache, NoHist)
            ELSE Returns(c, stream_whole_result(
                    enhanced_outcome(r, is_multimodal, vision_initialized, m, e)))

\* android: llamafu_generate_text_streaming (lines 1801-1810).
llamafu_generate_text_streaming ==
    /\ build = "android"
    /\ pc \in {"idle", "done"}
    /\ \E r \in StreamRequests :
        Return(CallOf("llamafu_generate_text_streaming", r, 0),
               "LLAMAFU_ERROR_UNKNOWN", Unset, cache, NoHist)

ios_stream_begin == ios_variant_begin({"ios_llamafu_complete_stream"})

ios_grammar_begin == ios_variant_begin(GrammarEntries)

NextStream ==
    \/ ios_stream_begin
    \/ ios_variant_iter
    \/ ios_variant_end
    \/ ios_llamafu_multimodal_complete_stream
    \/ llamafu_multimodal_complete_streaming
    \/ llamafu_generate_text_streaming

SpecStream == Init /\ [][NextStream]_vars

NextGrammar ==
    \/ ios_grammar_begin
    \/ ios_variant_iter
    \/ ios_variant_end

SpecGrammar == Init /\ [][NextGrammar]_vars

(***************************************************************************)
(* android: the sampler-chain API.  objs are the engine's llama_sampler   *)
(* objects (0 is the null pointer), wrappers the LlamafuSampler_s structs *)
(* that point at them.  n_add, n_remove and added are bookkeeping of the  *)
(* calls made on a chain, kept beside it.                                 *)
(***************************************************************************)
Range(q) == { q[k] : k \in 1 .. Len(q) }

RemoveAt(q, k) == [j \in 1 .. (Len(q) - 1) |-> IF j < k THEN q[j] ELSE q[j + 1]]

NewObj(kind) ==
    [kind |-> kind, children |-> <<>>, freed |-> FALSE, n_free |-> 0,
     n_add |-> 0, n_remove |-> 0, added |-> <<>>]

\* new LlamafuSampler_s{sampler, type}.
NewWrapper(obj, type) == [sampler |-> obj, type |-> type, deleted |-> FALSE]

\* The chains that hold id, and the chains that hold those.
RECURSIVE Ancestors(_)
Ancestors(id) ==
    LET ps == { c \in DOMAIN objs : id \in Range(objs[c].children) }
    IN  ps \cup UNION { Ancestors(q) : q \in ps }

\* llama_sampler_free: a chain frees its children with itself.
RECURSIVE FreedBy(_)
FreedBy(id) ==
    {id} \cup UNION { FreedBy(ch) : ch \in Range(objs[id].children) }

\* The objects after llama_sampler_free of the objects in gone.
AfterFree(os, gone) ==
    [k \in DOMAIN os |->
        IF k \in gone
        THEN [os[k] EXCEPT !.freed = TRUE, !.n_free = @ + 1]
        ELSE os[k]]

\* What a call that ran into undefined behaviour (a freed object, an object
\* of another type behind the pointer) may do: go on and return, or fault.
\* Nothing is said about the program after such a call: no call follows it.
Outcomes(ub, ret) == IF ub THEN {ret, "crash"} ELSE {ret}

\* llama_sampler_chain_add: the sampler is pushed at the back.
llama_sampler_chain_add(children, smpl) == Append(children, smpl)

\* llama_sampler_chain_remove: null (0) for an index outside the chain,
\* else the element at the index, which is erased.
llama_sampler_chain_remove(children, idx) ==
    IF idx < 0 \/ idx >= Len(children)
    THEN [removed |-> 0, children |-> children]
    ELSE [removed |-> children[idx + 1], children |-> RemoveAt(children, idx + 1)]

\* llama_sampler_chain_get: null (0) for an index outside the chain.
llama_sampler_chain_get(children, idx) ==
    IF idx < 0 \/ idx >= Len(children) THEN 0 ELSE children[idx + 1]

\* llama_sampler_chain_n.
llama_sampler_chain_n(children) == Len(children)

IsChain(w) == w # 0 /\ wrappers[w].type = "LLAMAFU_SAMPLER_CHAIN"

\* The object behind handle w is a chain sampler of the engine.
ActuallyChain(w) == w # 0 /\ objs[wrappers[w].sampler].kind = "chain"

\* llamafu_sampler_chain_n: -1 for a null or non-chain handle.
llamafu_sampler_chain_n(w) ==
    IF w = 0 \/ wrappers[w].type # "LLAMAFU_SAMPLER_CHAIN"
    THEN -1
    ELSE llama_sampler_chain_n(objs[wrappers[w].sampler].children)

\* Bookkeeping: idx names a child of the chain behind handle w.
ValidIndex(w, idx) ==
    /\ IsChain(w)
    /\ idx >= 0
    /\ idx < Len(objs[wrappers[w].sampler].children)

\* The argument check of llamafu_sampler_chain_add (line 681).
chain_add_rejects(chain, sampler) ==
    chain = 0 \/ sampler = 0 \/ wrappers[chain].type # "LLAMAFU_SAMPLER_CHAIN"

\* A chain_remove whose check refuses index 0 as well.
chain_remove_rejects_zero(chain, idx) ==
    chain = 0 \/ wrappers[chain].type # "LLAMAFU_SAMPLER_CHAIN" \/ idx <= 0

\* The argument check of llamafu_sampler_chain_remove (line 694).
chain_remove_rejects(chain, idx) ==
    chain = 0 \/ wrappers[chain].type # "LLAMAFU_SAMPLER_CHAIN" \/ idx < 0

\* The common shape of the llamafu_sampler_init_* constructors: null for a
\* rejected parameter or when the engine returns no sampler, else a new
\* wrapper around the engine's sampler.
make_sampler(op, type, args, rejects, ok) ==
    IF rejects \/ ~ok
    THEN /\ last' = [NoLast EXCEPT !.op = op, !.arg = args, !.ret = "nullptr"]
         /\ UNCHANGED <<objs, wrappers, made>>
    ELSE /\ objs' = Append(objs, NewObj("leaf"))
         /\ wrappers' = Append(wrappers, NewWrapper(Len(objs) + 1, type))
         /\ made' = made \cup {[type |-> type, args |-> args]}
         /\ last' = [NoLast EXCEPT !.op = op, !.arg = args, !.ret = "handle"]

llamafu_sampler_chain_init ==
    /\ build = "android"
    /\ ~last.ub
    /\ Len(objs) < MaxObj
    /\ Len(wrappers) < MaxWrap
    /\ \E ok \in BOOLEAN :
        IF ok
        THEN /\ objs' = Append(objs, NewObj("chain"))
             /\ wrappers' = Append(wrappers,
                    NewWrapper(Len(objs) + 1, "LLAMAFU_SAMPLER_CHAIN"))
             /\ last' = [NoLast EXCEPT !.op = "chain_init", !.ret = "handle"]
        ELSE /\ last' = [NoLast EXCEPT !.op = "chain_init", !.ret = "nullptr"]
             /\ UNCHANGED <<objs, wrappers>>
    /\ UNCHANGED <<genvars, extvars>>

llamafu_sampler_init_top_k ==
    /\ build = "android"
    /\ ~last.ub
    /\ Len(objs) < MaxObj
    /\ Len(wrappers) < MaxWrap
    /\ \E k \in {-1, 0, 1}, ok \in BOOLEAN :
        make_sampler("init_top_k", "LLAMAFU_SAMPLER_TOP_K", <<k>>, k <= 0, ok)
    /\ UNCHANGED <<genvars, boot, lora, proc, conv, bench>>

\* The body of llamafu_sampler_chain_add (lines 680-691).
chain_add_call(chain, sampler) ==
    IF chain_add_rejects(chain, sampler)
    THEN /\ last' = [op |-> "chain_add", chain |-> chain, arg |-> sampler,
                     n_before |-> llamafu_sampler_chain_n(chain),
                     before |-> IF IsChain(chain)
                                THEN objs[wrappers[chain].sampler].children
                                ELSE <<>>,
                     ret |-> "LLAMAFU_ERROR_INVALID_PARAM", uaf |-> FALSE,
                     ub |-> FALSE]
         /\ UNCHANGED <<objs, wrappers>>
    ELSE LET c == wrappers[chain].sampler
             x == wrappers[sampler].sampler
             uaf == objs[c].freed \/ objs[x].freed
             ub == uaf \/ objs[c].kind # "chain"
         IN  \E ret \in Outcomes(ub, "LLAMAFU_SUCCESS") :
                /\ objs' = IF ret = "crash" \/ objs[c].kind # "chain"
                           THEN objs
                           ELSE [objs EXCEPT
                                   ![c].children = llama_sampler_chain_add(@, x),
                                   ![c].n_add = @ + 1,
                                   ![c].added = Append(@, x)]
                /\ last' = [op |-> "chain_add", chain |-> chain, arg |-> sampler,
                            n_before |-> Len(objs[c].children),
                            before |-> objs[c].children,
                            ret |-> ret, uaf |-> uaf, ub |-> ub]
                /\ UNCHANGED wrappers

\* The body of llamafu_sampler_chain_remove (lines 693-707).
chain_remove_call(chain, idx) ==
    IF chain_remove_rejects(chain, idx)
    THEN /\ last' = [op |-> "chain_remove", chain |-> chain, arg |-> idx,
                     n_before |-> llamafu_sampler_chain_n(chain),
                     before |-> IF IsChain(chain)
                                THEN objs[wrappers[chain].sampler].children
                                ELSE <<>>,
                     ret |-> "LLAMAFU_ERROR_INVALID_PARAM", uaf |-> FALSE,
                     ub |-> FALSE]
         /\ objs' = IF ValidIndex(chain, idx)
                    THEN [objs EXCEPT ![wrappers[chain].sampler].n_remove = @ + 1]
                    ELSE objs
         /\ UNCHANGED wrappers
    ELSE LET c == wrappers[chain].sampler
             r == llama_sampler_chain_remove(objs[c].children, idx)
             gone == IF r.removed # 0 THEN FreedBy(r.removed) ELSE {}
             uaf == objs[c].freed \/ \E g \in gone : objs[g].freed
             ub == uaf \/ objs[c].kind # "chain"
         IN  \E ret \in Outcomes(ub, "LLAMAFU_SUCCESS") :
                /\ objs' = IF ret = "crash"
                           THEN objs
                           ELSE AfterFree(
                                  [objs EXCEPT
                                     ![c].children = r.children,
                                     ![c].n_remove = IF ValidIndex(chain, idx)
                                                     THEN @ + 1 ELSE @],
                                  gone)
                /\ last' = [op |-> "chain_remove", chain |-> chain, arg |-> idx,
                            n_before |-> Len(objs[c].children),
                            before |-> objs[c].children,
                            ret |-> ret, uaf |-> uaf, ub |-> ub]
                /\ UNCHANGED wrappers

\* The caller passes null or a handle whose sampler is live; a sampler goes
\* into one chain only, and never into itself or a chain it holds.
llamafu_sampler_chain_add ==
    /\ \E chain \in 0 .. Len(wrappers), sampler \in 0 .. Len(wrappers) :
        /\ chain # 0 => ~objs[wrappers[chain].sampler].freed
        /\ sampler # 0 => ~objs[wrappers[sampler].sampler].freed
        /\ (chain # 0 /\ sampler # 0) =>
              LET c == wrappers[chain].sampler
                  x == wrappers[sampler].sampler
              IN  /\ Ancestors(x) = {}
                  /\ x \notin ({c} \cup Ancestors(c))
                  /\ Len(objs[c].children) < MaxChain
        /\ chain_add_call(chain, sampler)
    /\ UNCHANGED <<genvars, extvars>>

llamafu_sampler_chain_remove ==
    /\ \E chain \in 0 .. Len(wrappers), idx \in (-1) .. MaxChain :
        /\ chain # 0 => ~objs[wrappers[chain].sampler].freed
        /\ chain_remove_call(chain, idx)
    /\ UNCHANGED <<genvars, extvars>>

NextChain ==
    \/ llamafu_sampler_chain_init
    \/ llamafu_sampler_init_top_k
    \/ llamafu_sampler_chain_add
    \/ llamafu_sampler_chain_remove

SpecChain == Init /\ [][NextChain]_vars

(***************************************************************************)
(* android: the constructors of the leaf samplers.                         *)
(***************************************************************************)
\* The probabilities and the mirostat parameters a caller may pass.
Probs == {-1, 0, 10, 11, NaN}
Taus == {0, 50, NaN}

llamafu_sampler_init_top_p ==
    /\ build = "android"
    /\ Len(objs) < MaxObj
    /\ \E p \in Probs, ok \in BOOLEAN :
        make_sampler("init_top_p", "LLAMAFU_SAMPLER_TOP_P", <<p>>,
                     FLt(p, 0) \/ FGt(p, 10), ok)
    /\ UNCHANGED <<genvars, boot, lora, proc, conv, bench>>

llamafu_sampler_init_min_p ==
    /\ build = "android"
    /\ Len(objs) < MaxObj
    /\ \E p \in Probs, ok \in BOOLEAN :
        make_sampler("init_min_p", "LLAMAFU_SAMPLER_MIN_P", <<p>>,
                     FLt(p, 0) \/ FGt(p, 10), ok)
    /\ UNCHANGED <<genvars, boot, lora, proc, conv, bench>>

llamafu_sampler_init_typical ==
    /\ build = "android"
    /\ Len(objs) < MaxObj
    /\ \E p \in Probs, ok \in BOOLEAN :
        make_sampler("init_typical", "LLAMAFU_SAMPLER_TYPICAL", <<p>>,
                     FLt(p, 0) \/ FGt(p, 10), ok)
    /\ UNCHANGED <<genvars, boot, lora, proc, conv, bench>>

llamafu_sampler_init_mirostat ==
    /\ build = "android"
    /\ Len(objs) < MaxObj
    /\ \E n_vocab \in {0, VocabSize}, tau \in Taus, eta \in {0, 1}, m \in {0, 100},
          ok \in BOOLEAN :
        make_sampler("init_mirostat", "LLAMAFU_SAMPLER_MIROSTAT",
                     <<tau, eta, m, n_vocab>>,
                     n_vocab <= 0 \/ FLe(tau, 0) \/ FLe(eta, 0) \/ m <= 0, ok)
    /\ UNCHANGED <<genvars, boot, lora, proc, conv, bench>>

llamafu_sampler_init_mirostat_v2 ==
    /\ build = "android"
    /\ Len(objs) < MaxObj
    /\ \E tau \in Taus, eta \in {0, 1, NaN}, ok \in BOOLEAN :
        make_sampler("init_mirostat_v2", "LLAMAFU_SAMPLER_MIROSTAT_V2",
                     <<tau, eta>>, FLe(tau, 0) \/ FLe(eta, 0), ok)
    /\ UNCHANGED <<genvars, boot, lora, proc, conv, bench>>

NextMake ==
    \/ llamafu_sampler_init_top_k
    \/ llamafu_sampler_init_top_p
    \/ llamafu_sampler_init_min_p
    \/ llamafu_sampler_init_typical
    \/ llamafu_sampler_init_mirostat
    \/ llamafu_sampler_init_mirostat_v2

SpecMake == Init /\ [][NextMake]_vars

(***************************************************************************)
(* android: the sampler API under a caller that keeps no ownership         *)
(* discipline.  The caller passes null or any handle it has not itself     *)
(* passed to llamafu_sampler_free; what is behind the handle may have been *)
(* freed by another call.  A chain is never added to itself or to a chain  *)
(* it holds.                                                               *)
(***************************************************************************)
Held(w) == IF w = 0 THEN TRUE ELSE ~wrappers[w].deleted

llamafu_sampler_chain_add_any ==
    /\ ~last.ub
    /\ \E chain \in 0 .. Len(wrappers), sampler \in 0 .. Len(wrappers) :
        /\ Held(chain) /\ Held(sampler)
        /\ (chain # 0 /\ sampler # 0) =>
              LET c == wrappers[chain].sampler
                  x == wrappers[sampler].sampler
              IN  objs[c].kind = "chain" =>
                     /\ x \notin ({c} \cup Ancestors(c))
                     /\ Len(objs[c].children) < MaxChain
        /\ chain_add_call(chain, sampler)
    /\ UNCHANGED <<genvars, extvars>>

llamafu_sampler_chain_remove_any ==
    /\ ~last.ub
    /\ \E chain \in 0 .. Len(wrappers), idx \in (-1) .. MaxChain :
        /\ Held(chain)
        /\ chain_remove_call(chain, idx)
    /\ UNCHANGED <<genvars, extvars>>

\* llamafu_sampler_chain_get (lines 721-738): the handle it returns carries
\* the chain type whatever the child is.
llamafu_sampler_chain_get ==
    /\ ~last.ub
    /\ Len(wrappers) < MaxWrap
    /\ \E chain \in 0 .. Len(wrappers), idx \in (-1) .. MaxChain :
        /\ Held(chain)
        /\ IF chain = 0 \/ wrappers[chain].type # "LLAMAFU_SAMPLER_CHAIN" \/ idx < 0
           THEN /\ last' = [NoLast EXCEPT !.op = "chain_get", !.chain = chain,
                                          !.arg = idx, !.ret = "nullptr"]
                /\ UNCHANGED <<objs, wrappers>>
           ELSE LET c == wrappers[chain].sampler
                    sampler == llama_sampler_chain_get(objs[c].children, idx)
                    uaf == objs[c].freed
                    ub == uaf \/ objs[c].kind # "chain"
                IN  \E ret \in Outcomes(ub, IF sampler = 0 THEN "nullptr" ELSE "handle") :
                       /\ wrappers' = IF ret = "handle"
                                      THEN Append(wrappers,
                                              NewWrapper(sampler, "LLAMAFU_SAMPLER_CHAIN"))
                                      ELSE wrappers
                       /\ last' = [NoLast EXCEPT !.op = "chain_get", !.chain = chain,
                                                 !.arg = idx, !.ret = ret,
                                                 !.uaf = uaf, !.ub = ub]
                       /\ UNCHANGED objs
    /\ UNCHANGED <<genvars, extvars>>

\* llamafu_sampler_reset (lines 764-774).
llamafu_sampler_reset ==
    /\ ~last.ub
    /\ \E sampler \in 0 .. Len(wrappers) :
        /\ Held(sampler)
        /\ IF sampler = 0
           THEN last' = [NoLast EXCEPT !.op = "reset", !.ret = "void"]
           ELSE LET uaf == objs[wrappers[sampler].sampler].freed
                IN  \E ret \in Outcomes(uaf, "void") :
                       last' = [NoLast EXCEPT !.op = "reset", !.chain = sampler,
                                              !.ret = ret, !.uaf = uaf,
                                              !.ub = uaf]
    /\ UNCHANGED <<objs, wrappers>>
    /\ UNCHANGED <<genvars, extvars>>

\* llamafu_sampler_free (lines 776-783).
llamafu_sampler_free ==
    /\ ~last.ub
    /\ \E sampler \in 0 .. Len(wrappers) :
        /\ Held(sampler)
        /\ IF sampler = 0
           THEN /\ last' = [NoLast EXCEPT !.op = "free", !.ret = "void"]
                /\ UNCHANGED <<objs, wrappers>>
           ELSE LET gone == FreedBy(wrappers[sampler].sampler)
                    uaf == \E g \in gone : objs[g].freed
                IN  \E ret \in Outcomes(uaf, "void") :
                       /\ objs' = IF ret = "crash" THEN objs ELSE AfterFree(objs, gone)
                       /\ wrappers' = IF ret = "crash" THEN wrappers
                                      ELSE [wrappers EXCEPT ![sampler].deleted = TRUE]
                       /\ last' = [NoLast EXCEPT !.op = "free", !.chain = sampler,
                                                 !.ret = ret, !.uaf = uaf,
                                              !.ub = uaf]
    /\ UNCHANGED <<genvars, extvars>>

NextOwn ==
    \/ llamafu_sampler_chain_init
    \/ llamafu_sampler_init_top_k
    \/ llamafu_sampler_chain_add_any
    \/ llamafu_sampler_chain_remove_any
    \/ llamafu_sampler_chain_get
    \/ llamafu_sampler_reset
    \/ llamafu_sampler_free

SpecOwn == Init /\ [][NextOwn]_vars

(***************************************************************************)
(* llamafu_init and llamafu_free.  boot.res counts the engine's resources  *)
(* that are held: llama_backend_init calls not yet matched by              *)
(* llama_backend_free, models, contexts, vision contexts and Llamafu_s     *)
(* structs.  The caller creates a handle when it holds none.               *)
(***************************************************************************)
\* The engine's answers llamafu_init may meet: the model load, the context
\* creation, the allocation of the Llamafu_s (operator new) and the vision
\* context.  An answer the call never asks for is fixed.
InitAnswers ==
    { e \in [model_ok : BOOLEAN, ctx_ok : BOOLEAN, alloc_ok : BOOLEAN,
             vision_ok : BOOLEAN] :
        /\ ~e.model_ok => (e.ctx_ok /\ e.alloc_ok /\ e.vision_ok)
        /\ ~e.ctx_ok => (e.alloc_ok /\ e.vision_ok) }

Acquire(res, backend, model, ctx, vision, handle) ==
    [res EXCEPT !.backend = @ + backend, !.model = @ + model, !.ctx = @ + ctx,
                !.vision = @ + vision, !.handle = @ + handle]

\* llamafu_init returns: what it holds now, what it answered.
InitReturns(r, res, ret, attempted) ==
    /\ boot' = [res |-> res, n_init |-> boot.n_init + 1, op |-> "llamafu_init",
                req |-> r, ret |-> ret, load_attempted |-> attempted,
                before |-> boot.res]
    /\ lora' = IF ret = "LLAMAFU_SUCCESS" THEN NoLora ELSE lora
    /\ UNCHANGED <<genvars, chainvars, made, proc, conv, bench>>

\* android: llamafu_init (lines 82-152).
android_llamafu_init ==
    /\ build = "android"
    /\ boot.res.handle = 0
    /\ boot.n_init < MaxInit
    /\ \E r \in InitRequests :
        IF r.null_params \/ r.null_out \/ ~validate_string_param(r.path_len)
        THEN InitReturns(r, boot.res, "LLAMAFU_ERROR_INVALID_PARAM", FALSE)
        ELSE \E e \in InitAnswers :
            IF ~e.model_ok
            THEN InitReturns(r, boot.res, "LLAMAFU_ERROR_MODEL_LOAD_FAILED", TRUE)
            ELSE IF ~e.ctx_ok
            THEN InitReturns(r, boot.res, "LLAMAFU_ERROR_OUT_OF_MEMORY", TRUE)
            ELSE IF ~e.alloc_ok
            THEN InitReturns(r, Acquire(boot.res, 1, 1, 1, 0, 0),
                             "LLAMAFU_ERROR_UNKNOWN", TRUE)
            ELSE IF r.mmproj /\ ~e.vision_ok
            THEN InitReturns(r, boot.res, "LLAMAFU_ERROR_VISION_INIT_FAILED", TRUE)
            ELSE InitReturns(r,
                    [Acquire(boot.res, 1, 1, 1, IF r.mmproj THEN 1 ELSE 0, 1)
                        EXCEPT !.out = boot.n_init + 2],
                    "LLAMAFU_SUCCESS", TRUE)

\* ios: llamafu_init (lines 31-87).  The function checks none of its
\* arguments: a null params or out pointer, or a null path, is dereferenced.
ios_llamafu_init ==
    /\ build = "ios"
    /\ boot.res.handle = 0
    /\ boot.n_init < MaxInit
    /\ boot.ret # "crash"
    /\ \E r \in InitRequests, e \in InitAnswers :
        LET b1 == Acquire(boot.res, 1, 0, 0, 0, 0)
        IN  IF r.null_params
            THEN InitReturns(r, boot.res, "crash", FALSE)
            ELSE IF r.path_len < 0
            THEN \E ret \in Outcomes(TRUE, "LLAMAFU_ERROR_MODEL_LOAD_FAILED") :
                    InitReturns(r, b1, ret, TRUE)
            ELSE IF ~e.model_ok \/ r.path_len = 0
            THEN InitReturns(r, b1, "LLAMAFU_ERROR_MODEL_LOAD_FAILED", TRUE)
            ELSE IF ~e.ctx_ok
            THEN InitReturns(r, b1, "LLAMAFU_ERROR_OUT_OF_MEMORY", TRUE)
            ELSE IF r.mmproj /\ ~e.vision_ok
            THEN InitReturns(r, b1, "LLAMAFU_ERROR_MODEL_LOAD_FAILED", TRUE)
            ELSE IF ~e.alloc_ok
            THEN InitReturns(r, Acquire(b1, 0, 1, 1, IF r.mmproj THEN 1 ELSE 0, 0),
                             "LLAMAFU_ERROR_UNKNOWN", TRUE)
            ELSE IF r.null_out
            THEN InitReturns(r, Acquire(b1, 0, 1, 1, IF r.mmproj THEN 1 ELSE 0, 1),
                             "crash", TRUE)
            ELSE InitReturns(r,
                    [Acquire(b1, 0, 1, 1, IF r.mmproj THEN 1 ELSE 0, 1)
                        EXCEPT !.out = boot.n_init + 2],
                    "LLAMAFU_SUCCESS", TRUE)

(***************************************************************************)
(* The LoRA adapters of the handle.  An adapter handle is the number of    *)
(* the adapter it was returned for; 0 is the null handle.                  *)
(***************************************************************************)
\* The scales a caller passes (tenths).
Scales == {-1, 0, 10, 20, 21, NaN}

\* The adapter handles a caller passes: null, the handles returned so far,
\* and a pointer that no load has returned.
AdapterArgs == 0 .. (Len(lora.ads) + 1)

FreeAdapters(ads, gone) ==
    [k \in DOMAIN ads |->
        IF k \in gone
        THEN [ads[k] EXCEPT !.freed = TRUE, !.n_free = @ + 1]
        ELSE ads[k]]

\* llama_set_adapter_lora: the context refers to the adapter from now on.
llama_set_adapter_lora(attached, adapter) == attached \cup {adapter}

\* llama_rm_adapter_lora: -1 when the context does not refer to the adapter.
llama_rm_adapter_lora(attached, adapter) ==
    IF adapter \in attached
    THEN [rc |-> 0, attached |-> attached \ {adapter}]
    ELSE [rc |-> -1, attached |-> attached]

\* llama_adapter_lora_free: the adapter's weights are freed; the contexts
\* that refer to it are not told.
llama_adapter_lora_free(ads, adapter) == FreeAdapters(ads, {adapter})

LoraCall(op, adapter, scale) ==
    [NoLoraCall EXCEPT !.op = op, !.arg = adapter, !.scale = scale,
                       !.registered = adapter \in lora.registry,
                       !.was_removed = adapter \in lora.removed,
                       !.registry_before = lora.registry,
                       !.out_before = lora.out]

LoraReturns(l, c, ret) ==
    /\ lora' = [l EXCEPT !.last = [c EXCEPT !.ret = ret],
                         !.dangling = @ \/ \E a \in l.attached : l.ads[a].freed]
    /\ UNCHANGED <<genvars, chainvars, made, boot, proc, conv, bench>>

LoraReady == boot.res.handle = 1 /\ ~lora.last.uaf

\* A scale check that refuses only what is above the range.
lora_scale_rejects_above(scale) == FGt(scale, 20)

\* The scale check of the android adapter calls (lines 255, 280).
lora_scale_rejects(scale) == ~validate_float_param(scale, 0, 20)

\* android: llamafu_load_lora_adapter_from_file (lines 249-273).
llamafu_load_lora_adapter_from_file ==
    /\ build = "android"
    /\ LoraReady
    /\ Len(lora.ads) < MaxAdapters
    /\ \E null_arg \in BOOLEAN, path_len \in {0, 1}, scale \in Scales,
          ok \in BOOLEAN :
        LET c == LoraCall("load_lora_adapter_from_file", 0, scale)
            handle == Len(lora.ads) + 1
        IN  IF null_arg \/ ~validate_string_param(path_len)
            THEN LoraReturns(lora, c, "LLAMAFU_ERROR_INVALID_PARAM")
            ELSE IF lora_scale_rejects(scale)
            THEN LoraReturns(lora, c, "LLAMAFU_ERROR_INVALID_PARAM")
            ELSE IF ~ok
            THEN LoraReturns(lora,
                    [c EXCEPT !.engine_calls = 1, !.opened = TRUE],
                    "LLAMAFU_ERROR_LORA_LOAD_FAILED")
            ELSE LoraReturns(
                    [lora EXCEPT !.ads = Append(@, [freed |-> FALSE, n_free |-> 0]),
                                 !.registry = @ \cup {handle},
                                 !.out = handle],
                    [c EXCEPT !.engine_calls = 1, !.opened = TRUE],
                    "LLAMAFU_SUCCESS")

\* android: llamafu_set_lora_adapter (lines 275-297).
llamafu_set_lora_adapter ==
    /\ build = "android"
    /\ LoraReady
    /\ \E adapter \in AdapterArgs, scale \in Scales, ok \in BOOLEAN :
        LET c == LoraCall("set_lora_adapter", adapter, scale)
        IN  IF adapter = 0
            THEN LoraReturns(lora, c, "LLAMAFU_ERROR_INVALID_PARAM")
            ELSE IF lora_scale_rejects(scale)
            THEN LoraReturns(lora, c, "LLAMAFU_ERROR_INVALID_PARAM")
            ELSE IF adapter \notin lora.registry
            THEN LoraReturns(lora, c, "LLAMAFU_ERROR_LORA_NOT_FOUND")
            ELSE IF ~ok
            THEN LoraReturns(lora, [c EXCEPT !.engine_calls = 1],
                             "LLAMAFU_ERROR_UNKNOWN")
            ELSE LoraReturns(
                    [lora EXCEPT !.attached = llama_set_adapter_lora(@, adapter)],
                    [c EXCEPT !.engine_calls = 1], "LLAMAFU_SUCCESS")

\* android: llamafu_unload_lora_adapter (lines 299-316).
llamafu_unload_lora_adapter ==
    /\ build = "android"
    /\ LoraReady
    /\ \E adapter \in AdapterArgs :
        LET c == LoraCall("unload_lora_adapter", adapter, 0)
        IN  IF adapter = 0
            THEN LoraReturns(lora, c, "LLAMAFU_ERROR_INVALID_PARAM")
            ELSE IF adapter \notin lora.registry
            THEN LoraReturns(lora, c, "LLAMAFU_ERROR_LORA_NOT_FOUND")
            ELSE LoraReturns(
                    [lora EXCEPT !.ads = llama_adapter_lora_free(@, adapter),
                                 !.registry = @ \ {adapter},
                                 !.removed = @ \cup {adapter}],
                    [c EXCEPT !.engine_calls = 1], "LLAMAFU_SUCCESS")

\* ios: llamafu_lora_adapter_init (lines 715-740).
llamafu_lora_adapter_init ==
    /\ build = "ios"
    /\ LoraReady
    /\ Len(lora.ads) < MaxAdapters
    /\ \E null_arg \in BOOLEAN, ok \in BOOLEAN :
        LET c == LoraCall("lora_adapter_init", 0, 0)
            handle == Len(lora.ads) + 1
        IN  IF null_arg
            THEN LoraReturns(lora, c, "LLAMAFU_ERROR_INVALID_PARAM")
            ELSE IF ~ok
            THEN LoraReturns(lora,
                    [c EXCEPT !.engine_calls = 1, !.opened = TRUE],
                    "LLAMAFU_ERROR_LORA_LOAD_FAILED")
            ELSE LoraReturns(
                    [lora EXCEPT !.ads = Append(@, [freed |-> FALSE, n_free |-> 0]),
                                 !.registry = @ \cup {handle},
                                 !.out = handle],
                    [c EXCEPT !.engine_calls = 1, !.opened = TRUE],
                    "LLAMAFU_SUCCESS")

\* ios: llamafu_lora_adapter_apply (lines 742-766).
llamafu_lora_adapter_apply ==
    /\ build = "ios"
    /\ LoraReady
    /\ \E adapter \in AdapterArgs, scale \in Scales, ok \in BOOLEAN :
        LET c == LoraCall("lora_adapter_apply", adapter, scale)
        IN  IF adapter = 0
            THEN LoraReturns(lora, c, "LLAMAFU_ERROR_INVALID_PARAM")
            ELSE IF adapter \notin lora.registry
            THEN LoraReturns(lora, c, "LLAMAFU_ERROR_LORA_NOT_FOUND")
            ELSE LET c1 == [c EXCEPT !.engine_calls = 1,
                                     !.uaf = lora.ads[adapter].freed]
                 IN  IF ~ok
                     THEN LoraReturns(lora, c1, "LLAMAFU_ERROR_UNKNOWN")
                     ELSE LoraReturns(
                            [lora EXCEPT
                               !.attached = llama_set_adapter_lora(@, adapter)],
                            c1, "LLAMAFU_SUCCESS")

\* ios: llamafu_lora_adapter_remove (lines 768-792).
llamafu_lora_adapter_remove ==
    /\ build = "ios"
    /\ LoraReady
    /\ \E adapter \in AdapterArgs :
        LET c == LoraCall("lora_adapter_remove", adapter, 0)
            rm == llama_rm_adapter_lora(lora.attached, adapter)
        IN  IF adapter = 0
            THEN LoraReturns(lora, c, "LLAMAFU_ERROR_INVALID_PARAM")
            ELSE IF adapter \notin lora.registry
            THEN LoraReturns(lora, c, "LLAMAFU_ERROR_LORA_NOT_FOUND")
            ELSE IF rm.rc # 0
            THEN LoraReturns(lora, [c EXCEPT !.engine_calls = 1],
                             "LLAMAFU_ERROR_UNKNOWN")
            ELSE LoraReturns(
                    [lora EXCEPT !.attached = rm.attached,
                                 !.removed = @ \cup {adapter}],
                    [c EXCEPT !.engine_calls = 1], "LLAMAFU_SUCCESS")

\* ios: llamafu_lora_adapter_clear_all (lines 794-808).
llamafu_lora_adapter_clear_all ==
    /\ build = "ios"
    /\ LoraReady
    /\ LoraReturns([lora EXCEPT !.attached = {}],
                   [LoraCall("lora_adapter_clear_all", 0, 0) EXCEPT
                       !.engine_calls = 1],
                   "LLAMAFU_SUCCESS")

\* ios: llamafu_lora_adapter_free (lines 810-818).  The caller passes a
\* handle it was given and has not passed to this function before.
llamafu_lora_adapter_free ==
    /\ build = "ios"
    /\ LoraReady
    /\ \E adapter \in 1 .. Len(lora.ads) :
        /\ ~lora.ads[adapter].freed
        /\ LoraReturns(
              [lora EXCEPT !.ads = llama_adapter_lora_free(@, adapter)],
              [LoraCall("lora_adapter_free", adapter, 0) EXCEPT !.engine_calls = 1],
              "void")

\* What llamafu_free does to the adapters: every registered adapter is
\* freed while the context is still there, then the context is freed.
FreeLora ==
    LET l1 == [lora EXCEPT !.ads = FreeAdapters(@, lora.registry),
                           !.registry = {}]
        c == [LoraCall("llamafu_free", 0, 0) EXCEPT
                !.engine_calls = Cardinality(lora.registry),
                !.uaf = \E a \in lora.registry : lora.ads[a].freed]
    IN  [l1 EXCEPT !.dangling = @ \/ \E a \in l1.attached : l1.ads[a].freed,
                   !.attached = {},
                   !.last = [c EXCEPT !.ret = "void"]]

FreeReturns(res) ==
    /\ boot' = [boot EXCEPT !.res = res, !.op = "llamafu_free", !.ret = "void",
                            !.before = boot.res]
    /\ lora' = FreeLora
    /\ UNCHANGED <<genvars, chainvars, made, proc, conv, bench>>

\* android: llamafu_free (lines 1035-1070).
android_llamafu_free ==
    /\ build = "android"
    /\ LoraReady
    /\ FreeReturns(Acquire(boot.res, -1, -1, -1, -boot.res.vision, -1))

\* ios: llamafu_free (lines 858-877).
ios_llamafu_free ==
    /\ build = "ios"
    /\ LoraReady
    /\ FreeReturns(Acquire(boot.res, 0, -1, -1, -boot.res.vision, -1))

NextBoot ==
    \/ android_llamafu_init
    \/ ios_llamafu_init
    \/ android_llamafu_free
    \/ ios_llamafu_free

SpecBoot == Init /\ [][NextBoot]_vars

NextLora ==
    \/ llamafu_load_lora_adapter_from_file
    \/ llamafu_set_lora_adapter
    \/ llamafu_unload_lora_adapter
    \/ llamafu_lora_adapter_init
    \/ llamafu_lora_adapter_apply
    \/ llamafu_lora_adapter_remove
    \/ llamafu_lora_adapter_clear_all
    \/ llamafu_lora_adapter_free
    \/ android_llamafu_free
    \/ ios_llamafu_free

SpecLora == Init /\ [][NextLora]_vars

(***************************************************************************)
(* The process: several threads, each with its own handle, and the         *)
(* engine's process-wide state.  llama_backend_init and llama_backend_free *)
(* keep no count: the first sets the backend up, the second tears it down. *)
(***************************************************************************)
Threads == 1 .. MaxHandles

ProcUnchanged == UNCHANGED <<genvars, chainvars, made, boot, lora, conv, bench>>

\* android: llamafu_init on a thread (lines 82-152): the backend is set up
\* (line 93) and torn down again when the model, the context or the vision
\* context cannot be created (lines 101, 114, 142).
android_thread_init ==
    /\ build = "android"
    /\ \E t \in Threads \ proc.live, ok \in BOOLEAN :
        proc' = [proc EXCEPT
                    !.op = "llamafu_init", !.thread = t,
                    !.ret = IF ok THEN "LLAMAFU_SUCCESS"
                            ELSE "LLAMAFU_ERROR_MODEL_LOAD_FAILED",
                    !.live = IF ok THEN @ \cup {t} ELSE @,
                    !.backend = ok]
    /\ ProcUnchanged

\* ios: llamafu_init on a thread (lines 31-87): the backend is set up (line
\* 34) and no path tears it down.
ios_thread_init ==
    /\ build = "ios"
    /\ \E t \in Threads \ proc.live, ok \in BOOLEAN :
        proc' = [proc EXCEPT
                    !.op = "llamafu_init", !.thread = t,
                    !.ret = IF ok THEN "LLAMAFU_SUCCESS"
                            ELSE "LLAMAFU_ERROR_MODEL_LOAD_FAILED",
                    !.live = IF ok THEN @ \cup {t} ELSE @,
                    !.backend = TRUE]
    /\ ProcUnchanged

\* A thread tokenizes or generates on its own live handle.
thread_use ==
    /\ \E t \in proc.live :
        /\ proc.op # "use" \/ proc.thread # t
        /\ proc' = [proc EXCEPT !.op = "use", !.thread = t, !.ret = "none",
                                !.used_down = @ \/ ~proc.backend]
    /\ ProcUnchanged

\* android: llamafu_free (lines 1035-1070) ends with llama_backend_free.
android_thread_free ==
    /\ build = "android"
    /\ \E t \in proc.live :
        proc' = [proc EXCEPT !.op = "llamafu_free", !.thread = t,
                             !.ret = "void", !.live = @ \ {t},
                             !.backend = FALSE]
    /\ ProcUnchanged

\* ios: llamafu_free (lines 858-877).
ios_thread_free ==
    /\ build = "ios"
    /\ \E t \in proc.live :
        proc' = [proc EXCEPT !.op = "llamafu_free", !.thread = t,
                             !.ret = "void", !.live = @ \ {t}]
    /\ ProcUnchanged

\* The callbacks and the user_data pointers a caller registers; 0 is null.
LogCallbacks == {0, 1, 2}

LogUserData == {0, 11, 12}

\* android: llamafu_set_log_callback (lines 2049-2075).  For a non-null
\* callback the engine is given a fixed function and, as its user_data, the
\* callback pointer; the caller's user_data is not stored.
llamafu_set_log_callback ==
    /\ build = "android"
    /\ proc.n_log < MaxLogCalls
    /\ \E callback \in LogCallbacks, user_data \in LogUserData :
        proc' = [proc EXCEPT
                    !.op = "llamafu_set_log_callback", !.thread = 0,
                    !.ret = "LLAMAFU_SUCCESS",
                    !.reg = [cb |-> callback, ud |-> user_data],
                    !.slot = IF callback # 0
                             THEN [fn |-> 1, ud |-> callback]
                             ELSE [fn |-> 0, ud |-> 0],
                    !.delivered = [cb |-> 0, ud |-> 0],
                    !.n_log = @ + 1]
    /\ ProcUnchanged

\* The engine logs a line: the function in its slot is called with the
\* slot's user_data; the function calls cb = user_data with
\* cb(level, text, user_data) (lines 2054, 2065).
log_event ==
    /\ proc.op # "log"
    /\ proc' = [proc EXCEPT
                    !.op = "log", !.thread = 0, !.ret = "none",
                    !.delivered = IF proc.slot.fn = 1
                                  THEN [cb |-> proc.slot.ud, ud |-> proc.slot.ud]
                                  ELSE [cb |-> 0, ud |-> 0]]
    /\ ProcUnchanged

NextProc ==
    \/ android_thread_init
    \/ ios_thread_init
    \/ thread_use
    \/ android_thread_free
    \/ ios_thread_free
    \/ llamafu_set_log_callback
    \/ log_event

SpecProc == Init /\ [][NextProc]_vars

(***************************************************************************)
(* Tokenizing and detokenizing (android).  A text is a sequence of bytes.  *)
(* The vocabulary has a one-byte piece for each byte, one piece longer     *)
(* than the bytes llamafu_detokenize reserves per token, and a BOS token   *)
(* that the engine adds under add_special and drops under remove_special.  *)
(***************************************************************************)
Bytes == {"a", "b"}

Texts == UNION { [1 .. n -> Bytes] : n \in 0 .. MaxText }

TokA == 0
TokB == 1
TokLong == 2
TokBos == 3

LongPiece == [k \in 1 .. DetokBytesPerToken + 1 |-> "a"]

\* The bytes of one token as llama_detokenize writes them.
token_piece(t, remove_special) ==
    CASE t = TokA -> <<"a">>
      [] t = TokB -> <<"b">>
      [] t = TokLong -> LongPiece
      [] OTHER -> IF remove_special THEN <<>> ELSE <<"<", "s", ">">>

IsPrefix(p, text) ==
    Len(p) <= Len(text) /\ SubSeq(text, 1, Len(p)) = p

\* The engine's tokenizer: the longest piece first.
RECURSIVE longest_match(_)
longest_match(text) ==
    IF text = <<>> THEN <<>>
    ELSE IF IsPrefix(LongPiece, text)
         THEN <<TokLong>>
              \o longest_match(SubSeq(text, Len(LongPiece) + 1, Len(text)))
         ELSE <<IF Head(text) = "a" THEN TokA ELSE TokB>>
              \o longest_match(Tail(text))

\* llama_tokenize: the tokens and the count, negated when the caller's
\* buffer of n_tokens_max is too small.
llama_tokenize(text, n_tokens_max, add_special) ==
    LET toks == (IF add_special THEN <<TokBos>> ELSE <<>>)
                \o longest_match(text)
    IN  [tokens |-> toks,
         n |-> IF Len(toks) > n_tokens_max THEN 0 - Len(toks) ELSE Len(toks)]

RECURSIVE pieces(_, _)
pieces(tokens, remove_special) ==
    IF tokens = <<>> THEN <<>>
    ELSE token_piece(Head(tokens), remove_special)
         \o pieces(Tail(tokens), remove_special)

\* llama_detokenize: the text and its length, negated when the caller's
\* buffer of text_len_max is too small.
llama_detokenize(tokens, text_len_max, remove_special) ==
    LET txt == pieces(tokens, remove_special)
    IN  [text |-> txt,
         n |-> IF Len(txt) > text_len_max THEN 0 - Len(txt) ELSE Len(txt)]

ConvUnchanged ==
    UNCHANGED <<genvars, chainvars, made, boot, lora, proc, bench>>

\* llamafu_tokenize (lines 318-351) on the caller's text.
llamafu_tokenize ==
    /\ build = "android"
    /\ \E add_special \in BOOLEAN, alloc_ok \in BOOLEAN :
        LET text_len == Len(conv.text)
            r == llama_tokenize(conv.text, text_len + TokenizeSlack,
                                add_special)
            c == [conv EXCEPT !.op = "llamafu_tokenize",
                              !.add_special = add_special,
                              !.remove_special = FALSE,
                              !.alloc_ok = alloc_ok,
                              !.tokens = <<>>, !.out_text = <<>>]
        IN  conv' =
              IF text_len <= 0
              THEN [c EXCEPT !.ret = "LLAMAFU_ERROR_INVALID_PARAM"]
              ELSE IF r.n < 0
              THEN [c EXCEPT !.ret = "LLAMAFU_ERROR_INVALID_PARAM"]
              ELSE IF ~alloc_ok
              THEN [c EXCEPT !.ret = "LLAMAFU_ERROR_OUT_OF_MEMORY"]
              ELSE [c EXCEPT !.ret = "LLAMAFU_SUCCESS", !.tokens = r.tokens]
    /\ ConvUnchanged

\* llamafu_detokenize (lines 353-387) on the tokens llamafu_tokenize
\* returned.
llamafu_detokenize ==
    /\ build = "android"
    /\ conv.op = "llamafu_tokenize"
    /\ conv.ret = "LLAMAFU_SUCCESS"
    /\ \E remove_special \in BOOLEAN, alloc_ok \in BOOLEAN :
        LET n_tokens == Len(conv.tokens)
            text_len_max == n_tokens * DetokBytesPerToken
            r == llama_detokenize(conv.tokens, text_len_max, remove_special)
            c == [conv EXCEPT !.op = "llamafu_detokenize",
                              !.remove_special = remove_special,
                              !.alloc_ok = alloc_ok]
        IN  conv' =
              IF n_tokens <= 0
              THEN [c EXCEPT !.ret = "LLAMAFU_ERROR_INVALID_PARAM"]
              ELSE IF ~validate_numeric_param(n_tokens, 1, MaxTokensLimit)
              THEN [c EXCEPT !.ret = "LLAMAFU_ERROR_INVALID_PARAM"]
              ELSE IF r.n < 0
              THEN [c EXCEPT !.ret = "LLAMAFU_ERROR_UNKNOWN"]
              ELSE IF ~alloc_ok
              THEN [c EXCEPT !.ret = "LLAMAFU_ERROR_OUT_OF_MEMORY"]
              ELSE [c EXCEPT !.ret = "LLAMAFU_SUCCESS", !.out_text = r.text]
    /\ ConvUnchanged

\* The caller's text is any text over the vocabulary's bytes.
InitConv ==
    /\ InitBase
    /\ conv \in { [NoConv EXCEPT !.text = t] : t \in Texts }

NextConv ==
    \/ llamafu_tokenize
    \/ llamafu_detokenize

SpecConv == InitConv /\ [][NextConv]_vars

(***************************************************************************)
(* The context's thread settings and llamafu_bench_model (android).        *)
(***************************************************************************)
BenchUnchanged ==
    UNCHANGED <<genvars, chainvars, made, boot, lora, proc, conv>>

\* llamafu_set_n_threads (lines 1838-1853).
llamafu_set_n_threads ==
    /\ build = "android"
    /\ \E n_threads \in {0} \cup ThreadCounts,
          n_threads_batch \in {0} \cup ThreadCounts :
        LET b == [bench EXCEPT !.op = "llamafu_set_n_threads",
                               !.arg = <<n_threads, n_threads_batch>>,
                               !.before = <<bench.n_threads,
                                            bench.n_threads_batch>>,
                               !.sampled = {}, !.path = "none"]
        IN  bench' =
              IF \/ ~validate_numeric_param(n_threads, 1, MaxThreads)
                 \/ ~validate_numeric_param(n_threads_batch, 1, MaxThreads)
              THEN [b EXCEPT !.validated = FALSE,
                             !.ret = "LLAMAFU_ERROR_INVALID_PARAM"]
              ELSE [b EXCEPT !.validated = TRUE,
                             !.n_threads = n_threads,
                             !.n_threads_batch = n_threads_batch,
                             !.ret = "LLAMAFU_SUCCESS"]
    /\ BenchUnchanged

\* The thread counts and the token counts a benchmark is asked for.
BenchThreads == {0} \cup (1 .. MaxSetThreads + 1)

BenchPredict == 0 .. 2

\* llamafu_bench_model (lines 1953-2033).  n_tokens is what the engine's
\* tokenizer returns for the benchmark prompt, prompt_ok whether the prompt
\* decodes, fail_at the iteration whose decode fails (0 for none).  Every
\* iteration of the generation loop samples from the handle's
\* default_sampler (line 1998), which no function of the source assigns:
\* sampling from it is undefined behaviour.
llamafu_bench_model ==
    /\ build = "android"
    /\ \E n_threads \in BenchThreads, n_predict \in BenchPredict :
        LET b == [bench EXCEPT !.op = "llamafu_bench_model",
                               !.arg = <<n_threads, n_predict>>,
                               !.before = <<bench.n_threads,
                                            bench.n_threads_batch>>,
                               !.sampled = {}, !.path = "none"]
        IN  IF \/ ~validate_numeric_param(n_threads, 1, MaxThreads)
               \/ ~validate_numeric_param(n_predict, 1, MaxPredict)
            THEN bench' = [b EXCEPT !.validated = FALSE,
                                    !.ret = "LLAMAFU_ERROR_INVALID_PARAM"]
            ELSE \E n_tokens \in {0 - 1, 1} :
                 LET set == [b EXCEPT !.validated = TRUE,
                                      !.n_threads = n_threads,
                                      !.n_threads_batch = n_threads]
                 IN  IF n_tokens < 0
                     THEN \* tokens.resize(n_tokens) throws; the handler
                          \* sets the thread counts to what they are now.
                          bench' = [set EXCEPT
                                       !.path = "exception",
                                       !.ret = "LLAMAFU_ERROR_UNKNOWN"]
                     ELSE \E prompt_ok \in BOOLEAN :
                          IF ~prompt_ok
                          THEN bench' = [set EXCEPT
                                  !.n_threads = b.before[1],
                                  !.n_threads_batch = b.before[2],
                                  !.path = "prompt_failed",
                                  !.ret = "LLAMAFU_ERROR_UNKNOWN"]
                          ELSE \E fail_at \in 0 .. n_predict,
                                  ret \in Outcomes(
                                      bench.default_sampler # "live",
                                      "LLAMAFU_SUCCESS") :
                               bench' =
                                 IF ret = "crash"
                                 THEN [set EXCEPT
                                         !.sampled = {bench.default_sampler},
                                         !.path = "sample",
                                         !.ret = "crash"]
                                 ELSE [set EXCEPT
                                         !.sampled = {bench.default_sampler},
                                         !.n_threads = b.before[1],
                                         !.n_threads_batch = b.before[2],
                                         !.path = IF fail_at = 0
                                                  THEN "done"
                                                  ELSE "loop_failed",
                                         !.ret = ret]
    /\ BenchUnchanged

NextBench ==
    \/ llamafu_set_n_threads
    \/ llamafu_bench_model

SpecBench == Init /\ [][NextBench]_vars

(***************************************************************************)
(* android: the functions that build a request themselves and forward it   *)
(* to llamafu_complete.  A LlamafuInferParams initialised with = {} has    *)
(* every numeric field zero until the function assigns it.                 *)
(***************************************************************************)
ZeroParams ==
    [null_arg |-> FALSE, prompt_len |-> 0, max_tokens |-> 0, temperature |-> 0,
     top_p |-> 0, top_k |-> 0, repeat_penalty |-> 0, ignore_eos |-> FALSE]

\* The prompts, token counts and temperatures (tenths) the callers pass.
WrapPrompts == {0, 1}

WrapMaxTokens == {0, 1, MaxTokensLimit + 1}

WrapTemperatures == {0, 8, 21}

\* The request of llamafu_complete_simple (lines 1818-1826).
simple_params(prompt_len, max_tokens) ==
    [ZeroParams EXCEPT
        !.prompt_len = prompt_len,
        !.max_tokens = IF max_tokens > 0 THEN max_tokens ELSE 128,
        !.temperature = 7, !.top_p = 9, !.top_k = 40, !.repeat_penalty = 11]

\* The request of llamafu_generate_json (lines 3463-3469) and of
\* llamafu_generate_tool_call (lines 3372-3378).
grammar_infer_params(prompt_len, max_tokens, temperature) ==
    [ZeroParams EXCEPT
        !.prompt_len = prompt_len,
        !.max_tokens = IF max_tokens > 0 THEN max_tokens ELSE 256,
        !.temperature = IF FGt(temperature, 0) THEN temperature ELSE 1]

\* The request of the llamafu_chat_with_image_* functions (lines 2927-2936,
\* 2961-2970, 3000-3009).
chat_mm_params(prompt_len, max_tokens) ==
    [ZeroParams EXCEPT
        !.prompt_len = prompt_len,
        !.max_tokens = IF max_tokens > 0 THEN max_tokens ELSE 512,
        !.temperature = 7, !.top_k = 40, !.top_p = 9]

\* llamafu_complete as a value: the argument checks, then the body.
llamafu_complete_outcome(r, e) ==
    IF android_complete_rejects(r)
    THEN [st |-> "LLAMAFU_ERROR_INVALID_PARAM", out |-> Unset, mem |-> cache,
          h |-> NoHist]
    ELSE android_complete_outcome(NoHist, e.n, e.ok, e.alloc_ok)

Refused(st) == [st |-> st, out |-> Unset, mem |-> cache, h |-> NoHist]

\* The engine's answers llamafu_complete meets for the request: none is
\* asked for when the checks reject the request.
AnswersFor(r) ==
    IF android_complete_rejects(r)
    THEN {[n |-> 0, ok |-> TRUE, alloc_ok |-> TRUE]}
    ELSE EngineAnswers

\* llamafu_complete_simple (lines 1813-1831).
llamafu_complete_simple ==
    /\ build = "android"
    /\ pc \in {"idle", "done"}
    /\ \E prompt_len \in WrapPrompts, max_tokens \in WrapMaxTokens :
        LET r == simple_params(prompt_len, max_tokens)
        IN  IF ~validate_string_param(prompt_len)
            THEN Returns(CallOf("llamafu_complete_simple",
                                [r EXCEPT !.null_arg = TRUE], 0),
                         Refused("LLAMAFU_ERROR_INVALID_PARAM"))
            ELSE \E e \in AnswersFor(r) :
                    Returns(CallOf("llamafu_complete_simple", r, e.n),
                            llamafu_complete_outcome(r, e))

\* llamafu_generate_json (lines 3449-3480): grammar_rc is what
\* llamafu_schema_to_grammar returns.
llamafu_generate_json ==
    /\ build = "android"
    /\ pc \in {"idle", "done"}
    /\ \E prompt_len \in WrapPrompts, max_tokens \in WrapMaxTokens,
          temperature \in WrapTemperatures :
        LET r == grammar_infer_params(prompt_len, max_tokens, temperature)
        IN  \E grammar_rc \in {"LLAMAFU_SUCCESS", "LLAMAFU_ERROR_INVALID_PARAM"} :
            IF grammar_rc # "LLAMAFU_SUCCESS"
            THEN Returns(CallOf("llamafu_generate_json",
                                [r EXCEPT !.null_arg = TRUE], 0),
                         Refused(grammar_rc))
            ELSE \E e \in AnswersFor(r) :
                    Returns(CallOf("llamafu_generate_json", r, e.n),
                            llamafu_complete_outcome(r, e))

\* llamafu_generate_tool_call (lines 3344-3424): grammar_rc is what
\* llamafu_build_tool_grammar returns; the prompt the function builds is
\* never empty; calloc_ok is the allocation of the parsed call.
llamafu_generate_tool_call ==
    /\ build = "android"
    /\ pc \in {"idle", "done"}
    /\ \E max_tokens \in WrapMaxTokens, temperature \in WrapTemperatures :
        LET r == grammar_infer_params(1, max_tokens, temperature)
        IN  \E grammar_rc \in {"LLAMAFU_SUCCESS", "LLAMAFU_ERROR_INVALID_PARAM"} :
            IF grammar_rc # "LLAMAFU_SUCCESS"
            THEN Returns(CallOf("llamafu_generate_tool_call",
                                [r EXCEPT !.null_arg = TRUE], 0),
                         Refused(grammar_rc))
            ELSE \E e \in AnswersFor(r),
                    calloc_ok \in (IF android_complete_rejects(r)
                                   THEN {TRUE} ELSE BOOLEAN) :
                    LET x == llamafu_complete_outcome(r, e)
                    IN  Returns(CallOf("llamafu_generate_tool_call", r, e.n),
                            IF x.st # "LLAMAFU_SUCCESS"
                            THEN [x EXCEPT !.out = Unset]
                            ELSE IF ~calloc_ok
                            THEN [x EXCEPT !.st = "LLAMAFU_ERROR_OUT_OF_MEMORY",
                                           !.out = Unset]
                            ELSE [x EXCEPT !.out = Unset])

\* The common body of the llamafu_chat_with_image_* functions: the images
\* are loaded, the request is built and forwarded to
\* llamafu_multimodal_complete_enhanced with n_images image inputs.
chat_with_images(entry, n_images) ==
    /\ build = "android"
    /\ pc \in {"idle", "done"}
    /\ \E prompt_len \in WrapPrompts, max_tokens \in WrapMaxTokens :
        LET r == chat_mm_params(prompt_len, max_tokens)
        IN  IF ~validate_string_param(prompt_len)
            THEN Returns(CallOf(entry, [r EXCEPT !.null_arg = TRUE], 0),
                         Refused("LLAMAFU_ERROR_INVALID_PARAM"))
            ELSE \E load_ok \in BOOLEAN :
                 IF ~load_ok
                 THEN Returns(CallOf(entry, [r EXCEPT !.null_arg = TRUE], 0),
                              Refused("LLAMAFU_ERROR_IMAGE_LOAD_FAILED"))
                 ELSE \E is_multimodal \in BOOLEAN :
                      IF ~is_multimodal
                      THEN Returns(CallOf(entry, r, 0),
                              Refused("LLAMAFU_ERROR_MULTIMODAL_NOT_SUPPORTED"))
                      ELSE \E vision_initialized \in BOOLEAN :
                           IF ~vision_initialized
                           THEN Returns(CallOf(entry, r, 0),
                                   Refused("LLAMAFU_ERROR_VISION_INIT_FAILED"))
                           ELSE \E m \in { mi \in MediaInputs :
                                            /\ mi.n_other = 0
                                            /\ mi.n_ok + (IF mi.stop = "none"
                                                          THEN 0 ELSE 1)
                                               = n_images },
                                   e \in AnswersFor(r) :
                                Returns(CallOf(entry, r, e.n),
                                        enhanced_outcome(r, TRUE, TRUE, m, e))

\* llamafu_chat_with_image_file (lines 2910-2942).
llamafu_chat_with_image_file ==
    chat_with_images("llamafu_chat_with_image_file", 1)

\* llamafu_chat_with_image_base64 (lines 2944-2976).
llamafu_chat_with_image_base64 ==
    chat_with_images("llamafu_chat_with_image_base64", 1)

\* llamafu_chat_with_multiple_images (lines 2978-3015).
llamafu_chat_with_multiple_images ==
    \E n_images \in 1 .. MaxMedia :
        chat_with_images("llamafu_chat_with_multiple_images", n_images)

NextWrap ==
    \/ llamafu_complete_simple
    \/ llamafu_generate_json
    \/ llamafu_generate_tool_call
    \/ llamafu_chat_with_image_file
    \/ llamafu_chat_with_image_base64
    \/ llamafu_chat_with_multiple_images
    \/ android_llamafu_multimodal_complete

SpecWrap == Init /\ [][NextWrap]_vars

(***************************************************************************)
(* The generation entry points of one handle.                              *)
(***************************************************************************)
NextGen ==
    \/ llamafu_set_abort_callback
    \/ android_llamafu_complete
    \/ llamafu_generate_text_begin
    \/ llamafu_generate_text_iter
    \/ llamafu_generate_text_end
    \/ ios_llamafu_complete_begin
    \/ ios_llamafu_complete_iter
    \/ ios_llamafu_complete_end

SpecGen == Init /\ [][NextGen]_vars

\* The android entry points that validate a request, with the multimodal
\* entry that forwards to llamafu_complete.
NextMedia ==
    \/ llamafu_multimodal_complete_enhanced
    \/ android_llamafu_multimodal_complete
    \/ ios_llamafu_multimodal_complete
    \/ android_llamafu_complete
    \/ llamafu_generate_text_begin
    \/ llamafu_generate_text_iter
    \/ llamafu_generate_text_end

SpecMedia == Init /\ [][NextMedia]_vars

\* The code runs a call to its end once it has started: the loop and the
\* code after it are steps of one synchronous call.
FairSpecGen ==
    /\ SpecGen
    /\ WF_vars(llamafu_generate_text_iter)
    /\ WF_vars(llamafu_generate_text_end)
    /\ WF_vars(ios_llamafu_complete_iter)
    /\ WF_vars(ios_llamafu_complete_end)

(***************************************************************************)
(* The whole library.  The generation entry points and the sampler-chain  *)
(* API share no state, so each is explored under its own specification     *)
(* (SpecGen, FairSpecGen, SpecChain).                                      *)
(***************************************************************************)
Next ==
    \/ NextGen \/ NextMedia \/ NextStream \/ NextGrammar \/ NextWrap
    \/ NextChain \/ NextOwn \/ NextMake \/ NextBoot \/ NextLora
    \/ NextProc \/ NextConv \/ NextBench

Spec == Init /\ [][Next]_vars

LoopEntries == {"llamafu_generate_text", "ios_llamafu_complete"}

ErrorCodes ==
    {"LLAMAFU_ERROR_UNKNOWN", "LLAMAFU_ERROR_INVALID_PARAM",
     "LLAMAFU_ERROR_OUT_OF_MEMORY", "LLAMAFU_ERROR_DECODE_FAILED",
     "LLAMAFU_ERROR_ABORTED"}

(***************************************************************************)
(* Claims about generation.                                                *)
(***************************************************************************)

\* C1: a registered abort callback is polled once per loop iteration, and a
\* generation whose callback answers true on iteration K < max_tokens ends
\* with status Aborted and at most K generated tokens.
C1_AbortSemantics ==
    (/\ pc = "done"
     /\ call.entry = "llamafu_generate_text"
     /\ call.abort >= 0)
    => /\ hist.polls = hist.iters
       /\ (call.abort < call.max_tokens /\ hist.iters > call.abort)
          => (status = "LLAMAFU_ERROR_ABORTED" /\ Len(generated) <= call.abort)

\* C2: a failed decode or a negative token-to-text length inside the loop
\* ends the call at once with an error code and nothing stored through
\* out_result.
C2_NoPartialTextOnFailure ==
    (hist.loop_rc > 0 \/ hist.piece_rc < 0)
    => /\ pc = "done"
       /\ status \in ErrorCodes
       /\ out_result = Unset

\* C2's case: the decode of a later token fails when text has been generated.
C2_Witness ==
    /\ pc = "done"
    /\ hist.loop_rc > 0
    /\ Len(generated) >= 2
    /\ status = "LLAMAFU_ERROR_UNKNOWN"

\* The order the steps of one iteration are meant to have.
StepRank(e) ==
    CASE e = "draw" -> 1
      [] e = "check" -> 2
      [] e = "accept" -> 3
      [] e = "append" -> 4
      [] e = "decode" -> 5

Has(e) == \E k \in 1 .. Len(ev) : ev[k] = e

\* C3: the steps of an iteration run in the order draw, check stop, accept,
\* append, decode; an end-of-generation token drawn without ignore_eos stops
\* the loop and is neither accepted, appended nor decoded; every appended
\* token was accepted first.
C3_IterationOrder ==
    /\ \A j, k \in 1 .. Len(ev) : j < k => StepRank(ev[j]) < StepRank(ev[k])
    /\ (ev # <<>> /\ ~call.ignore_eos /\ hist.drawn >= 0
          /\ llama_vocab_is_eog(hist.drawn))
       => (pc # "loop" /\ ~Has("accept") /\ ~Has("append") /\ ~Has("decode"))
    /\ \A k \in 1 .. Len(generated) :
          k <= Len(accepted) /\ accepted[k] = generated[k]

\* C4: with ignore_eos set and no failing sample or decode step, a
\* generation produces exactly max_tokens tokens.
C4_IgnoreEosRunsToMaxTokens ==
    (/\ pc = "done"
     /\ call.entry \in LoopEntries
     /\ call.ignore_eos
     /\ hist.prompt_rc = 0
     /\ ~hist.step_failed)
    => Len(generated) = call.max_tokens

\* C5: the memory is empty when a call's prompt batch is decoded, and after
\* a successful prompt decode of n tokens the occupied positions are 0..n-1.
C5_CacheClearedAtPrompt ==
    (hist.prompt_rc >= 0)
    => /\ hist.at_prompt = {}
       /\ (hist.prompt_rc = 0) => (hist.after_prompt = 0 .. (call.n_tok - 1))

\* C6: a tokenization that yields a negative count or no token makes the
\* call return InvalidParam without clearing the memory or calling decode.
C6_EmptyTokenizationRejected ==
    (hist.tokenized /\ call.n_tok <= 0)
    => /\ pc = "done"
       /\ status = "LLAMAFU_ERROR_INVALID_PARAM"
       /\ hist.n_clear = 0
       /\ hist.n_decode = 0

\* C7: a nonzero decode status for the prompt batch makes the call return
\* LLAMAFU_ERROR_DECODE_FAILED.
C7_PromptDecodeFailureIsDecodeFailed ==
    (hist.prompt_rc > 0)
    => (pc = "done" /\ status = "LLAMAFU_ERROR_DECODE_FAILED")

C8_Bounds ==
    /\ (call.entry \in LoopEntries /\ pc # "idle")
       => /\ i <= call.max_tokens
          /\ hist.iters <= call.max_tokens
          /\ Len(generated) <= call.max_tokens
          /\ hist.n_decode <= 1 + call.max_tokens
    /\ (pc = "done") => (status \in ErrorCodes \cup {"LLAMAFU_SUCCESS"})

\* C8: a generation call runs at most max_tokens iterations, produces at
\* most max_tokens tokens, calls decode at most 1 + max_tokens times, and
\* always returns, with one status.
C8_BoundedGeneration ==
    /\ [](C8_Bounds)
    /\ (pc \in {"loop", "end"}) ~> (pc = "done")

\* C8's case: a call that used its whole budget of iterations and decodes.
C8_Witness ==
    /\ pc = "done"
    /\ call.entry \in LoopEntries
    /\ call.max_tokens = MaxTokens
    /\ hist.iters = call.max_tokens
    /\ hist.n_decode = 1 + call.max_tokens
    /\ status = "LLAMAFU_SUCCESS"

\* A request with non-null arguments and a prompt within the string limits.
WellFormed(r) == ~r.null_arg /\ validate_string_param(r.prompt_len)

\* One of the four bounded fields is outside its documented range.
OutOfBounds(r) ==
    \/ r.max_tokens < 1 \/ r.max_tokens > MaxTokensLimit
    \/ r.top_k < 1 \/ r.top_k > TopKLimit
    \/ ~(FGe(r.temperature, 0) /\ FLe(r.temperature, 20))
    \/ ~(FGe(r.top_p, 0) /\ FLe(r.top_p, 10))

\* C14: a call with a valid handle and prompt returns InvalidParam when
\* max_tokens, top_k, temperature or top_p is outside its range, and a call
\* with every parameter at its minimum, or at its maximum, is not rejected
\* by the validation.
C14_InferenceParamBounds ==
    (pc = "done" /\ call.entry # "none" /\ WellFormed(call.req))
    => /\ OutOfBounds(call.req) => status = "LLAMAFU_ERROR_INVALID_PARAM"
       /\ call.req \in {AtMinRequest, AtMaxRequest}
          => (status = "LLAMAFU_ERROR_INVALID_PARAM" => hist.tokenized)

(***************************************************************************)
(* Claims about the sampler chain.                                         *)
(***************************************************************************)
IsSubseq(a, b) ==
    \E f \in [1 .. Len(a) -> 1 .. Len(b)] :
        /\ \A k \in 1 .. Len(a) : a[k] = b[f[k]]
        /\ \A j, k \in 1 .. Len(a) : j < k => f[j] < f[k]

LiveChains ==
    { w \in 1 .. Len(wrappers) : IsChain(w) /\ ~objs[wrappers[w].sampler].freed }

\* C9: for every chain, after N successful chain_add calls and M chain_remove
\* calls with a valid index, llamafu_sampler_chain_n returns N - M and the
\* remaining children are in the order they were added.
C9_ChainSize ==
    \A w \in LiveChains :
        LET c == objs[wrappers[w].sampler]
        IN  /\ llamafu_sampler_chain_n(w) = c.n_add - c.n_remove
            /\ IsSubseq(c.children, c.added)

\* C9's case: a chain that has had two adds and then a remove of its first
\* child, and holds the second.
C9_Witness ==
    \E w \in LiveChains :
        LET c == objs[wrappers[w].sampler]
        IN  /\ c.n_add = 2
            /\ c.n_remove = 1
            /\ llamafu_sampler_chain_n(w) = 1
            /\ c.children = <<c.added[2]>>

\* C10: chain_remove with an index below 0 or not below the chain's size
\* returns an error code and leaves the chain unchanged.
C10_RemoveOutOfRangeFails ==
    (/\ last.op = "chain_remove"
     /\ IsChain(last.chain)
     /\ (last.arg < 0 \/ last.arg >= last.n_before))
    => /\ last.ret # "LLAMAFU_SUCCESS"
       /\ objs[wrappers[last.chain].sampler].children = last.before

(***************************************************************************)
(* Claims about sampler ownership.                                         *)
(***************************************************************************)

\* C11: chain_add returns InvalidParam and changes nothing whenever either
\* argument is null or the first argument's sampler is not a chain sampler,
\* for every handle the API hands out.
C11_ChainAddOnlyAcceptsChains ==
    (/\ last.op = "chain_add"
     /\ (last.chain = 0 \/ last.arg = 0 \/ ~ActuallyChain(last.chain)))
    => last.ret = "LLAMAFU_ERROR_INVALID_PARAM"

\* C12: every sampler object is freed at most once, no call touches a freed
\* object, and no live chain holds a freed child.
C12_NoDoubleFreeNoUseAfterFree ==
    /\ \A k \in DOMAIN objs : objs[k].n_free <= 1
    /\ ~last.uaf
    /\ \A k \in DOMAIN objs :
          ~objs[k].freed => \A ch \in Range(objs[k].children) : ~objs[ch].freed

(***************************************************************************)
(* Claims about sampler construction.                                      *)
(***************************************************************************)
\* The parameters of a sampler are in the range its kind asks for.
ParamsInRange(h) ==
    CASE h.type = "LLAMAFU_SAMPLER_TOP_K" -> h.args[1] > 0
      [] h.type \in {"LLAMAFU_SAMPLER_TOP_P", "LLAMAFU_SAMPLER_MIN_P",
                     "LLAMAFU_SAMPLER_TYPICAL"} ->
            FGe(h.args[1], 0) /\ FLe(h.args[1], 10)
      [] h.type = "LLAMAFU_SAMPLER_MIROSTAT" ->
            FGt(h.args[1], 0) /\ FGt(h.args[2], 0) /\ h.args[3] > 0
      [] h.type = "LLAMAFU_SAMPLER_MIROSTAT_V2" ->
            FGt(h.args[1], 0) /\ FGt(h.args[2], 0)

\* C13: a constructor returns null for k <= 0, for p outside [0,1], and
\* unless tau > 0, eta > 0 (and m > 0): no sampler handle with a parameter
\* out of range exists.
C13_SamplerParamsRejectedAtConstruction ==
    \A h \in made : ParamsInRange(h)

(***************************************************************************)
(* Claims about llamafu_init.                                              *)
(***************************************************************************)

\* C15: llamafu_init with a valid model_path returns InvalidParam, before
\* any model load, when n_threads is outside [1,128] or n_ctx is outside
\* [1,1048576].
C15_ModelParamBounds ==
    (/\ boot.op = "llamafu_init"
     /\ ~boot.req.null_params /\ ~boot.req.null_out
     /\ validate_string_param(boot.req.path_len)
     /\ \/ ~validate_numeric_param(boot.req.n_threads, 1, MaxThreads)
        \/ ~validate_numeric_param(boot.req.n_ctx, 1, MaxCtxSize))
    => (boot.ret = "LLAMAFU_ERROR_INVALID_PARAM" /\ ~boot.load_attempted)

\* C16: a llamafu_init that does not return success leaves the out slot as
\* it was and holds no resource it did not hold before the call.
C16_InitAllOrNothing ==
    (boot.op = "llamafu_init" /\ boot.ret \notin {"LLAMAFU_SUCCESS", "crash"})
    => boot.res = boot.before

(***************************************************************************)
(* Claims about the LoRA adapters.                                         *)
(***************************************************************************)
ApplyOps == {"set_lora_adapter", "lora_adapter_apply"}

UnloadOps == {"unload_lora_adapter", "lora_adapter_remove"}

\* The scale is in [0,2], as a comparison of floats decides it.
ScaleInBounds(scale) == FGe(scale, 0) /\ FLe(scale, 20)

\* C17: an apply or an unload of a non-null handle that is not registered,
\* or that an earlier unload or remove succeeded on, returns LoraNotFound
\* and makes no engine call (for an apply: when the scale is acceptable).
C17_UnregisteredHandleReported ==
    LET l == lora.last
    IN  (/\ l.op \in ApplyOps \cup UnloadOps
         /\ l.arg # 0
         /\ l.op = "set_lora_adapter" => ScaleInBounds(l.scale)
         /\ ~l.registered \/ l.was_removed)
        => (l.ret = "LLAMAFU_ERROR_LORA_NOT_FOUND" /\ l.engine_calls = 0)

\* C18: the decode context never refers to an adapter whose weights have
\* been freed, neither after a call nor during llamafu_free.
C18_DetachBeforeFree ==
    /\ ~lora.dangling
    /\ \A a \in lora.attached : ~lora.ads[a].freed

\* C19: llamafu_load_lora_adapter_from_file and llamafu_set_lora_adapter
\* called with a scale outside [0,2] return InvalidParam, open no adapter
\* file, make no engine call and leave the registry and *out_adapter alone.
C19_LoraScaleValidatedFirst ==
    LET l == lora.last
    IN  (/\ l.op \in {"load_lora_adapter_from_file", "set_lora_adapter"}
         /\ ~ScaleInBounds(l.scale))
        => /\ l.ret = "LLAMAFU_ERROR_INVALID_PARAM"
           /\ l.engine_calls = 0
           /\ ~l.opened
           /\ lora.registry = l.registry_before
           /\ lora.out = l.out_before

\* A registered adapter is applied with scale 2.1 and the call is refused.
C19_Witness ==
    /\ lora.last.op = "set_lora_adapter"
    /\ lora.last.registered
    /\ lora.last.scale = 21
    /\ lora.last.ret = "LLAMAFU_ERROR_INVALID_PARAM"
    /\ lora.registry # {}

(***************************************************************************)
(* Claims about what a rejected call has touched.                          *)
(***************************************************************************)
\* The argument checks of the entry point the call went through refuse the
\* request: an argument is null, empty or out of range.
EntryRejects(c) ==
    IF c.entry = "llamafu_generate_text"
    THEN generate_text_rejects(c.req)
    ELSE IF c.entry \in {"llamafu_complete", "llamafu_multimodal_complete_enhanced"}
    THEN android_complete_rejects(c.req)
    ELSE FALSE

\* C20: a generation call that returns InvalidParam for a null, empty or
\* out-of-range argument has invoked no tokenizer, memory clear, decode,
\* image load or encoder, and has stored nothing through out_result.
C20_ValidationBeforeSideEffects ==
    (/\ pc = "done"
     /\ status = "LLAMAFU_ERROR_INVALID_PARAM"
     /\ EntryRejects(call))
    => /\ hist = NoHist
       /\ out_result = Unset

(***************************************************************************)
(* Claims about the multimodal completions.                                *)
(***************************************************************************)
MediaEntries ==
    {"llamafu_multimodal_complete_enhanced", "llamafu_multimodal_complete",
     "ios_llamafu_multimodal_complete"}

\* C21: a multimodal completion in which an input failed to validate, load
\* or encode returns an error, has tokenized and decoded nothing, holds no
\* embedding and stores no text; one that returns success has processed
\* every input it was given.
C21_MultimodalAllOrNothing ==
    (pc = "done" /\ call.entry \in MediaEntries)
    => /\ hist.media_failed
          => /\ status # "LLAMAFU_SUCCESS"
             /\ ~hist.tokenized
             /\ hist.n_decode = 0
             /\ hist.n_held = 0
             /\ out_result = Unset
       /\ status = "LLAMAFU_SUCCESS" => hist.n_done = hist.n_inputs

(***************************************************************************)
(* Claims about the streaming and the grammar variants.                    *)
(***************************************************************************)
AllStreamEntries ==
    StreamEntries \cup {"ios_llamafu_multimodal_complete_stream",
                        "llamafu_multimodal_complete_streaming",
                        "llamafu_generate_text_streaming"}

\* C22: in a streaming call the callback has been called once per token
\* handed to the decode, in order, with that token's fragment, and before
\* that token's decode; no fragment holds a whole result.
C22_StreamPerTokenInOrder ==
    (call.entry \in AllStreamEntries /\ pc \in {"loop", "end", "done"})
    => /\ Len(hist.fragments) = Len(generated)
       /\ \A k \in 1 .. Len(hist.fragments) :
            hist.fragments[k] = Fragment("piece", <<generated[k]>>, k - 1)

\* C23: with a grammar, the token drawn in an iteration is one of the
\* candidates the grammar filter left, and no token the grammar rejects is
\* accepted or appended to the output.
C23_GrammarNeverEmitsIllegal ==
    (call.entry \in GrammarEntries /\ hist.has_grammar)
    => /\ hist.drawn >= 0 => hist.drawn \in hist.cand
       /\ \A k \in 1 .. Len(generated) : generated[k] \in hist.legal
       /\ \A k \in 1 .. Len(accepted) : accepted[k] \in hist.legal

(***************************************************************************)
(* Claims about the process-wide state.                                    *)
(***************************************************************************)

\* C24: while a thread's handle is live the backend it depends on is
\* initialised, whatever the other threads do with their own handles, and
\* no thread has used its handle with the backend torn down.
C24_HandlesIndependent ==
    /\ (proc.live # {}) => proc.backend
    /\ ~proc.used_down

\* C26: a log event is delivered to the callback of the latest
\* llamafu_set_log_callback call with the user_data of that call, and to no
\* callback when that call passed a null callback.
C26_LogCallbackLastWriterWins ==
    (proc.op = "log")
    => IF proc.reg.cb = 0
       THEN proc.delivered = [cb |-> 0, ud |-> 0]
       ELSE proc.delivered = proc.reg

\* C25: llamafu_tokenize of a non-empty text over the vocabulary followed
\* by llamafu_detokenize of the returned tokens with the same special-token
\* flag succeeds and returns the text, when both allocations succeed,
\* whatever the lengths of the tokens' pieces.
C25_TokenizeRoundTrip ==
    (/\ conv.op = "llamafu_detokenize"
     /\ conv.remove_special = conv.add_special
     /\ conv.alloc_ok)
    => (conv.ret = "LLAMAFU_SUCCESS" /\ conv.out_text = conv.text)

\* C29: every sample call llamafu_bench_model makes on the handle's
\* default_sampler finds a sampler that was created and not freed.
C29_BenchSamplesInitialisedSampler ==
    (bench.op = "llamafu_bench_model") => bench.sampled \subseteq {"live"}

\* C30: when llamafu_bench_model returns after its validation, the
\* context's n_threads and n_threads_batch are what they were at entry.
C30_BenchRestoresThreads ==
    (/\ bench.op = "llamafu_bench_model"
     /\ bench.validated
     /\ bench.ret # "crash")
    => <<bench.n_threads, bench.n_threads_batch>> = bench.before

\* C28: the weights of every loaded adapter are freed at most once, and
\* exactly once by the time llamafu_free has returned, and the registry
\* never holds an adapter whose weights have been freed.
C28_AdapterFreedOnce ==
    /\ \A a \in DOMAIN lora.ads : lora.ads[a].n_free <= 1
    /\ \A a \in lora.registry : ~lora.ads[a].freed
    /\ (lora.last.op = "llamafu_free")
       => \A a \in DOMAIN lora.ads : lora.ads[a].n_free = 1

\* The functions that build the request of llamafu_complete themselves.
WrapperEntries ==
    {"llamafu_complete_simple", "llamafu_generate_json",
     "llamafu_generate_tool_call", "llamafu_chat_with_image_file",
     "llamafu_chat_with_image_base64", "llamafu_chat_with_multiple_images",
     "llamafu_multimodal_complete"}

\* The fields of the forwarded request that come from the caller's
\* arguments are in range.
CallerFieldsPass(r) ==
    /\ ~r.null_arg
    /\ validate_string_param(r.prompt_len)
    /\ validate_numeric_param(r.max_tokens, 1, MaxTokensLimit)
    /\ validate_float_param(r.temperature, 0, 20)

\* C27: when a forwarding function is called with valid arguments, the
\* request it builds passes the checks of llamafu_complete, and the function
\* returns InvalidParam only for what the tokenizer answers.
C27_WrappersBuildValidRequest ==
    (/\ pc = "done"
     /\ call.entry \in WrapperEntries
     /\ CallerFieldsPass(call.req))
    => /\ ~android_complete_rejects(call.req)
       /\ (status = "LLAMAFU_ERROR_INVALID_PARAM") => hist.tokenized

====
